---- MODULE Spec2Model ----
(***************************************************************************)
(* Model of the batch execution engine of the Batch AI Operations          *)
(* extension: BatchProcessor (batchProcessor.ts) driven by its three       *)
(* callers (explorer command, chat participant, MCP batch tool) on the one *)
(* engine instance built in activate(), with LLMProvider.selectModel as    *)
(* the gateway.  Spec is the engine under its three callers, SinkSpec the  *)
(* engine with every outcome of saveResult, McpSpec the MCP tool handler   *)
(* handleBatchProcessFiles (mcpServer.ts) in front of the engine, FairSpec *)
(* Spec with the awaits that settle without the user, CancelSpec runs that *)
(* follow cancelled runs, GatewaySpec the engine with the gateway's model  *)
(* discovery and quick pick (llmProvider.ts), ResolverSpec buildPrompt     *)
(* over its arguments, ReportSpec the engine with the documents of         *)
(* showResults, ParserSpec parsePrompt (promptManager.ts) over prompt      *)
(* files, PartitionSpec createBatches run step by step, RequestSpec the    *)
(* dispatcher handleRequest of the MCP server, ConfigSpec the gateway      *)
(* under configuration changes, LibrarySpec the refreshes of the prompt    *)
(* library.                                                                *)
(***************************************************************************)
EXTENDS Integers, Sequences, FiniteSets, TLC

(* ---------------------------------------------------------------- bounds *)
MaxTargets == 3
MaxBatch == 2
MaxTok == 1
MaxTicks == 2

(* ------------------------------------------------------------- constants *)
\* the three call sites of BatchProcessor.process on the shared instance
Callers == {"ui", "chat", "mcp"}
\* two explorer listings the selected targets are taken from
Listings == {<<"a", "b", "c", "d", "e">>, <<"e", "d", "c", "b", "a">>}
Models == {"m1", "m2"}
\* selectModel() returning undefined
Undefined == "undefined"
\* ProcessingResult.tokens absent
NoTokens == -1
NoError == "none"

TokenVals == {NoTokens} \cup (1..MaxTok)
\* what getFileContent and buildPrompt can raise
ItemErrors == {"ReadError", "TemplateError"}
\* sendRequest did not reject: no error value
NoRejection == {}
\* how saveResult can end: document written, or mkdir / writeFile failed (caught)
SaveOutcomes == {"written", "failed"}

\* positions of a process() call in progress ("idle": none in progress)
Running == {"select", "partition", "loop", "await", "delay", "show"}
\* how a process() call can end
Exits == {"ConcurrencyViolation", "NoModelSelected", "ShowResultsFailed", "returned"}

TargetLists == {SubSeq(l, 1, n) : l \in Listings, n \in 0..MaxTargets}

\* chatParticipant.ts passes the literal 1; the other callers pass a number
BatchSizesOf(c) == IF c = "chat" THEN {1} ELSE 1..MaxBatch

VARIABLES
    isProcessing,       \* BatchProcessor.isProcessing
    cancellationToken,  \* BatchProcessor.cancellationToken: {} when undefined
    pc,                 \* position of each caller's process() call
    lastExit,           \* how the process() call that ended last ended ("none" once a new run starts)
    uris,               \* parameter uris of the call
    batchSize,          \* parameter batchSize of the call
    selectedModel,      \* local selectedModel
    batches,            \* local batches
    batchIndex,         \* loop variable batchIndex (0-based as in the source)
    items,              \* the processItem() promise of each target of the call
    settleOrder,        \* order in which the promises of the current batch settled
    results,            \* local results
    totalTokens,        \* local totalTokens
    batchResult,        \* local batchResult: {} before it is built
    dispatched,         \* number of processItem() calls made by the run
    delays,             \* number of delay(1000) calls made by the run
    selectCalls,        \* number of selectModel() calls made by the run
    docs,               \* the result documents the run has written to batch-ai-results
    mcpArgs,            \* arguments of the batch_process_files call handled last: {} when none
    mcpResponse,        \* the MCPResponse to that call: {} while there is none
    cancelledBefore,    \* history: a run that had been asked to cancel has ended
    availableModels,    \* LLMProvider.availableModels
    gw,                 \* the selectModel() call made last: position, what it did, its value
    workspaceFolders,   \* vscode.workspace.workspaceFolders
    resolver,           \* buildPrompt's arguments and what its calls returned
    report,             \* the summary showResults got last and the documents it opened
    parsing,            \* a prompt file and what parsePrompt made of it
    partition,          \* createBatches in progress: loop variable i and local batches
    rpc,                \* the handleRequest() call made last: request, position, outcome
    settings,           \* LLMProvider.provider, the discoveries in flight, what was offered
    library             \* the prompts folder, PromptManager.prompts, the refreshes in flight

vars == <<isProcessing, cancellationToken, pc, lastExit, uris, batchSize, selectedModel,
          batches, batchIndex, items, settleOrder, results, totalTokens,
          batchResult, dispatched, delays, selectCalls, docs, mcpArgs, mcpResponse,
          cancelledBefore, availableModels, gw, workspaceFolders, resolver, report,
          parsing, partition, rpc, settings, library>>

engine == <<isProcessing, cancellationToken>>
mcpIO == <<mcpArgs, mcpResponse>>
\* what lies outside the engine
gateway == <<availableModels, gw>>
resolving == <<workspaceFolders, resolver>>
\* the state of the prompt library, the configuration and the MCP dispatcher
\* the state of the other components of the extension
extension == <<rpc, settings, library>>
services == <<parsing, partition, extension>>
outer == <<mcpArgs, mcpResponse, cancelledBefore, availableModels, gw, workspaceFolders, resolver,
          report, services>>
locals == <<uris, batchSize, selectedModel, batches, batchIndex, items,
            settleOrder, results, totalTokens, batchResult, dispatched, delays, selectCalls, docs>>

(* ------------------------------------------------------------ helpers *)
Min(a, b) == IF a < b THEN a ELSE b

\* Array.prototype.slice(from, to) on 0-based indices, clamped to the length
slice(s, from, to) == SubSeq(s, from + 1, Min(to, Len(s)))

\* a createBatches whose loop stops before a partial last batch
RECURSIVE createBatchesFullOnly(_, _, _)
createBatchesFullOnly(list, size, i) ==
    IF i + size <= Len(list)
    THEN <<slice(list, i, i + size)>> \o createBatchesFullOnly(list, size, i + size)
    ELSE <<>>

\* createBatches: for (i = 0; i < items.length; i += batchSize) push(slice(i, i + batchSize))
RECURSIVE createBatchesFrom(_, _, _)
createBatchesFrom(list, size, i) ==
    IF i < Len(list)
    THEN <<slice(list, i, i + size)>> \o createBatchesFrom(list, size, i + size)
    ELSE <<>>

createBatches(list, size) == createBatchesFrom(list, size, 0)

\* LLMProvider.selectModel over the list getAvailableModels() returned:
\* the set of values it can return (the quick pick may be dismissed)
selectModel(models) ==
    IF models = {} THEN {Undefined}
    ELSE IF Cardinality(models) = 1 THEN models
    ELSE models \cup {Undefined}

\* a processItem() promise
NewItem == [st |-> "new", model |-> Undefined, tokens |-> NoTokens, error |-> NoError,
            rejection |-> NoRejection, save |-> "none", attempts |-> 0]

\* throw new Error(`Ollama error: ${error.response?.data?.error || error.message}`)
\* for a backend that answers "connection refused"
BackendError == [isError |-> TRUE, message |-> "Ollama error: connection refused"]

\* a catch block that reports every error as 'Unknown error'
unknownError(e) == "Unknown error"

\* error instanceof Error ? error.message : 'Unknown error'
errorMessage(e) == IF e.isError THEN e.message ELSE "Unknown error"
InFlightStates == {"read", "send", "save"}
SettledStates == {"ok", "failed"}

\* the ProcessingResult a settled processItem() promise carries
ProcessingResult(uri, it) ==
    [uri |-> uri, success |-> (it.st = "ok"), tokens |-> it.tokens, error |-> it.error,
     model |-> IF it.st = "ok" THEN it.model ELSE Undefined]

\* result.value.tokens without the "|| 0"
tokensUnguarded(t) == t

\* result.value.tokens || 0
tokensOrZero(t) == IF t = NoTokens \/ t = 0 THEN 0 ELSE t

RECURSIVE SumTokens(_)
SumTokens(rs) ==
    IF rs = <<>> THEN 0
    ELSE tokensOrZero(Head(rs).tokens) + SumTokens(Tail(rs))

\* results.filter(pred).length
RECURSIVE filterLength(_, _)
filterLength(rs, wantSuccess) ==
    IF rs = <<>> THEN 0
    ELSE (IF Head(rs).success = wantSuccess THEN 1 ELSE 0) + filterLength(Tail(rs), wantSuccess)

\* 0-based index of the first target of batch k
batchStart(c, k) == k * batchSize[c]

\* 1-based positions (in uris) of the targets of batch k
batchPositions(c, k) ==
    {i \in 1..Len(uris[c]) : batchStart(c, k) < i /\ i <= batchStart(c, k) + Len(batches[c][k + 1])}

InFlight(c) == {i \in DOMAIN items[c] : items[c][i].st \in InFlightStates}

\* this.cancellationToken?.token.isCancellationRequested
isCancellationRequested == \E t \in cancellationToken : t.cancelled

\* a process() entry test that never sees a run in progress
neverBusy == FALSE

\* if (this.isProcessing) at the entry of process()
alreadyProcessing == isProcessing

\* a model test that lets an undefined model through
anyModel(m) == FALSE

\* if (!selectedModel)
noModel(m) == m = Undefined

\* a loop head without the cancellation check
moreBatches(c) == batchIndex[c] < Len(batches[c])

\* batchIndex < batches.length, and no break on isCancellationRequested
dispatchNext(c) == batchIndex[c] < Len(batches[c]) /\ ~isCancellationRequested

\* a wait that ends with the first settled promise of the batch (Promise.race)
firstSettled(c) ==
    \E i \in batchPositions(c, batchIndex[c]) : items[c][i].st \in SettledStates

\* await Promise.allSettled(batchPromises)
allSettled(c) == batchPositions(c, batchIndex[c]) \cap InFlight(c) = {}

\* a request built with the first available model, whatever was selected
firstModel(c) == CHOOSE m \in Models : TRUE

\* model: selectedModel in the LLMRequest literal of processItem
requestModel(c) == selectedModel[c]

\* a pacing test without the batchSize > 1 conjunct
pacingAnySize(c) == batchIndex[c] < Len(batches[c]) - 1

\* if (batchIndex < batches.length - 1 && batchSize > 1)
pacingDue(c) == batchIndex[c] < Len(batches[c]) - 1 /\ batchSize[c] > 1

(* ------------------------------------------------------------ initial *)
\* the fields after the constructors, no call made yet
EngineInit ==
    /\ isProcessing = FALSE
    /\ cancellationToken = {}
    /\ pc = [c \in Callers |-> "idle"]
    /\ lastExit = "none"
    /\ uris = [c \in Callers |-> <<>>]
    /\ batchSize = [c \in Callers |-> 1]
    /\ selectedModel = [c \in Callers |-> Undefined]
    /\ batches = [c \in Callers |-> <<>>]
    /\ batchIndex = [c \in Callers |-> 0]
    /\ items = [c \in Callers |-> <<>>]
    /\ settleOrder = [c \in Callers |-> <<>>]
    /\ results = [c \in Callers |-> <<>>]
    /\ totalTokens = [c \in Callers |-> 0]
    /\ batchResult = [c \in Callers |-> {}]
    /\ dispatched = [c \in Callers |-> 0]
    /\ delays = [c \in Callers |-> 0]
    /\ selectCalls = [c \in Callers |-> 0]
    /\ docs = [c \in Callers |-> {}]
    /\ mcpArgs = {}
    /\ mcpResponse = {}
    /\ cancelledBefore = FALSE
    /\ availableModels = <<>>
    /\ gw = [pc |-> "idle", discovered |-> FALSE, failed |-> FALSE, failedBefore |-> FALSE,
             asked |-> FALSE,
             answer |-> Undefined, ret |-> Undefined]

Init ==
    /\ EngineInit
    /\ workspaceFolders = <<>>
    /\ resolver = [uri |-> <<"report.txt">>, content |-> <<>>, type |-> "prompt",
                   item |-> [command |-> "", aiPrompt |-> <<>>, content |-> <<>>],
                   prompts |-> <<>>]
    /\ report = [summary |-> {}, documents |-> {}]
    /\ parsing = [file |-> <<>>, parsed |-> {}]
    /\ partition = [i |-> 0, batches |-> <<>>]
    /\ rpc = [request |-> {}, pc |-> "idle", outcome |-> {}]
    /\ settings = [provider |-> "vscode.lm", source |-> "vscode.lm", inflight |-> <<>>,
                   offered |-> {}]
    /\ library = [folder |-> {}, prompts |-> <<>>, refreshes |-> <<>>]

\* the locals of a call that has ended go out of scope
DropLocals(c) ==
    /\ uris' = [uris EXCEPT ![c] = <<>>]
    /\ batchSize' = [batchSize EXCEPT ![c] = 1]
    /\ selectedModel' = [selectedModel EXCEPT ![c] = Undefined]
    /\ batches' = [batches EXCEPT ![c] = <<>>]
    /\ batchIndex' = [batchIndex EXCEPT ![c] = 0]
    /\ items' = [items EXCEPT ![c] = <<>>]
    /\ settleOrder' = [settleOrder EXCEPT ![c] = <<>>]
    /\ results' = [results EXCEPT ![c] = <<>>]
    /\ totalTokens' = [totalTokens EXCEPT ![c] = 0]
    /\ batchResult' = [batchResult EXCEPT ![c] = {}]
    /\ dispatched' = [dispatched EXCEPT ![c] = 0]
    /\ delays' = [delays EXCEPT ![c] = 0]
    /\ selectCalls' = [selectCalls EXCEPT ![c] = 0]
    /\ docs' = [docs EXCEPT ![c] = {}]

\* a finally block that forgets the cancellation handle
FinallyFlagOnly ==
    /\ isProcessing' = FALSE
    /\ UNCHANGED cancellationToken

\* the finally block of process()
Finally ==
    /\ isProcessing' = FALSE
    /\ cancellationToken' = {}

(* ------------------------------------------------------------ process() *)
\* the entry test moved inside the try block: the finally block runs on rejection
ProcessRejectedInTry(c) ==
    /\ pc[c] = "idle"
    /\ alreadyProcessing
    /\ lastExit' = "ConcurrencyViolation"
    /\ Finally
    /\ UNCHANGED <<pc, locals, outer>>

\* process() called while a run is active: the throw before the try block
processThrows(c) ==
    /\ pc[c] = "idle"
    /\ alreadyProcessing
    /\ lastExit' = "ConcurrencyViolation"
    /\ UNCHANGED <<engine, pc, locals>>

\* a rejected process() call of the explorer command or the chat participant
ProcessRejected(c) == processThrows(c) /\ UNCHANGED outer

\* process() from its entry to its first await (selectModel)
processEnters(c, u, b) ==
    /\ pc[c] = "idle"
    /\ ~alreadyProcessing
    /\ isProcessing' = TRUE
    /\ cancellationToken' = {[owner |-> c, cancelled |-> FALSE]}
    /\ pc' = [pc EXCEPT ![c] = "select"]
    /\ uris' = [uris EXCEPT ![c] = u]
    /\ batchSize' = [batchSize EXCEPT ![c] = b]
    /\ results' = [results EXCEPT ![c] = <<>>]
    /\ totalTokens' = [totalTokens EXCEPT ![c] = 0]
    /\ lastExit' = "none"
    /\ selectCalls' = [selectCalls EXCEPT ![c] = @ + 1]
    /\ UNCHANGED <<selectedModel, batches, batchIndex, items, settleOrder,
                   batchResult, dispatched, delays, docs>>

\* an accepted process() call of the explorer command or the chat participant
Process(c, u, b) == processEnters(c, u, b) /\ UNCHANGED outer

\* selectModel() settles; on a model: createBatches and entry into withProgress
ModelSelected(c, avail, m) ==
    /\ pc[c] = "select"
    /\ m \in selectModel(avail)
    /\ IF noModel(m)
       THEN \* throw new Error('No model selected'), then finally
            /\ pc' = [pc EXCEPT ![c] = "idle"]
            /\ lastExit' = "NoModelSelected"
            /\ Finally
            /\ DropLocals(c)
            /\ UNCHANGED outer
       ELSE /\ selectedModel' = [selectedModel EXCEPT ![c] = m]
            /\ batches' = [batches EXCEPT ![c] = createBatches(uris[c], batchSize[c])]
            /\ batchIndex' = [batchIndex EXCEPT ![c] = 0]
            /\ items' = [items EXCEPT ![c] = [i \in 1..Len(uris[c]) |-> NewItem]]
            /\ pc' = [pc EXCEPT ![c] = "loop"]
            /\ UNCHANGED <<engine, lastExit, uris, batchSize, settleOrder, results,
                           totalTokens, batchResult, dispatched, delays, selectCalls, docs,
                           outer>>

\* the BatchResult literal built after withProgress
BuildBatchResult(rs, tt) ==
    [results |-> rs,
     totalProcessed |-> Len(rs),
     totalSuccessful |-> filterLength(rs, TRUE),
     totalFailed |-> filterLength(rs, FALSE),
     totalTokens |-> tt]

\* head of the for loop: loop condition, cancellation check, dispatch of the batch
LoopHead(c) ==
    /\ pc[c] = "loop"
    /\ IF dispatchNext(c)
       THEN \* batch.map(uri => this.processItem(...)): every item starts its read
            /\ items' = [items EXCEPT ![c] =
                           [i \in DOMAIN items[c] |->
                              IF i \in batchPositions(c, batchIndex[c])
                              THEN [items[c][i] EXCEPT !.st = "read"]
                              ELSE items[c][i]]]
            /\ dispatched' = [dispatched EXCEPT ![c] = @ + Len(batches[c][batchIndex[c] + 1])]
            /\ settleOrder' = [settleOrder EXCEPT ![c] = <<>>]
            /\ pc' = [pc EXCEPT ![c] = "await"]
            /\ UNCHANGED <<engine, lastExit, uris, batchSize, selectedModel, batches,
                           batchIndex, results, totalTokens, batchResult, delays, selectCalls, docs,
                           outer>>
       ELSE \* loop left (condition false or break): aggregation, showResults awaited
            /\ batchResult' = [batchResult EXCEPT ![c] =
                                  {BuildBatchResult(results[c], totalTokens[c])}]
            /\ pc' = [pc EXCEPT ![c] = "show"]
            /\ UNCHANGED <<engine, lastExit, uris, batchSize, selectedModel, batches,
                           batchIndex, items, settleOrder, results, totalTokens, dispatched,
                           delays, selectCalls, docs, outer>>

(* ---------------------------------------------------------- processItem() *)
\* a processItem that keeps the error it caught in a field of the engine, which
\* the items in flight share
SettleShared(c, i, st, tok, err, rej) ==
    /\ items' = [items EXCEPT ![c] =
                     [j \in DOMAIN items[c] |->
                        IF j = i
                        THEN [items[c][j] EXCEPT !.st = st, !.tokens = tok, !.error = err,
                                                 !.rejection = rej]
                        ELSE IF items[c][j].st \in InFlightStates
                        THEN [items[c][j] EXCEPT !.error = err]
                        ELSE items[c][j]]]
    /\ settleOrder' = [settleOrder EXCEPT ![c] = Append(@, i)]

\* processItem returns: its promise settles with values of its own locals
Settle(c, i, st, tok, err, rej) ==
    /\ items' = [items EXCEPT ![c][i] =
                      [@ EXCEPT !.st = st, !.tokens = tok, !.error = err, !.rejection = rej]]
    /\ settleOrder' = [settleOrder EXCEPT ![c] = Append(@, i)]

ItemFrame == <<engine, pc, lastExit, uris, batchSize, selectedModel, batches, batchIndex,
               results, totalTokens, batchResult, dispatched, delays, selectCalls, outer>>

\* getFileContent settles, buildPrompt runs, sendRequest is called
ReadDone(c, i, err) ==
    /\ i \in DOMAIN items[c]
    /\ items[c][i].st = "read"
    /\ err \in ItemErrors \cup {NoError}
    /\ IF err = NoError
       THEN \* const request: LLMRequest = { prompt, model: selectedModel, ... }
            /\ items' = [items EXCEPT ![c][i] =
                           [@ EXCEPT !.st = "send", !.model = requestModel(c),
                                     !.attempts = @ + 1]]
            /\ UNCHANGED settleOrder
       ELSE Settle(c, i, "failed", NoTokens, err, NoRejection)
    /\ UNCHANGED <<ItemFrame, docs>>

\* a catch block that sends the request once more before giving up
resendOnce(it) == IF it.attempts < 2 THEN "send" ELSE "failed"

\* the backend call rejects: sendRequest rethrows (no retry), the catch block of
\* processItem returns the failure
afterRejection(it) == "failed"

\* sendRequest settles; on a response saveResult is called
SendDone(c, i, ok, tok) ==
    /\ i \in DOMAIN items[c]
    /\ items[c][i].st = "send"
    /\ tok \in TokenVals
    /\ IF ok
       THEN /\ items' = [items EXCEPT ![c][i] = [@ EXCEPT !.st = "save", !.tokens = tok]]
            /\ UNCHANGED settleOrder
       ELSE /\ tok = NoTokens
            /\ IF afterRejection(items[c][i]) = "failed"
               THEN Settle(c, i, "failed", NoTokens, errorMessage(BackendError),
                           {BackendError})
               ELSE /\ items' = [items EXCEPT ![c][i] =
                                    [@ EXCEPT !.rejection = {BackendError},
                                              !.attempts = @ + 1]]
                    /\ UNCHANGED settleOrder
    /\ UNCHANGED <<ItemFrame, docs>>

\* path.basename(uri.fsPath): "a" and "b" are files of one name in two folders
basename(uri) == IF uri \in {"a", "b"} THEN "index.ts" ELSE uri

\* `${path.basename(uri.fsPath)}_${itemName}_${timestamp}.md`; itemName is the
\* same for every item of a run
fileName(uri, timestamp) == <<basename(uri), timestamp>>

\* fs.writeFile(outputPath, outputContent): creates the file or replaces it
writeFile(dir, name, content) ==
    {d \in dir : d.name # name} \cup {[name |-> name, content |-> content]}

\* a saveResult without its try/catch: a failed write rejects processItem's await
saveRethrows(out) == IF out = "written" THEN "ok" ELSE "failed"

\* saveResult catches and logs: processItem goes on to return success
afterSave(out) == "ok"

\* saveResult settles: the document is written at timestamp, or the directory
\* creation or the write failed; processItem returns
SaveDone(c, i, out, timestamp) ==
    /\ i \in DOMAIN items[c]
    /\ items[c][i].st = "save"
    /\ out \in SaveOutcomes
    /\ items' = [items EXCEPT ![c][i] = [@ EXCEPT !.st = afterSave(out), !.save = out]]
    /\ settleOrder' = [settleOrder EXCEPT ![c] = Append(@, i)]
    /\ docs' = [docs EXCEPT ![c] =
                   IF out = "written"
                   THEN writeFile(@, fileName(uris[c][i], timestamp), uris[c][i])
                   ELSE @]
    /\ UNCHANGED ItemFrame

(* ------------------------------------------------- process(), continued *)
\* batch outcomes pushed by each promise as it settles (completion order)
batchOutcomesByCompletion(c, from, n) ==
    [k \in 1..Len(settleOrder[c]) |->
        ProcessingResult(uris[c][settleOrder[c][k]], items[c][settleOrder[c][k]])]

\* batch outcomes in which a failed item leaves no outcome
RECURSIVE batchOutcomesSkipFailed(_, _, _)
batchOutcomesSkipFailed(c, from, n) ==
    IF n = 0 THEN <<>>
    ELSE (IF items[c][from].st = "failed" THEN <<>>
          ELSE <<ProcessingResult(uris[c][from], items[c][from])>>)
         \o batchOutcomesSkipFailed(c, from + 1, n - 1)

\* a loop over batchResults that is left after the first result once the
\* cancellation is requested
batchOutcomesUntilCancelled(c, from, n) ==
    IF n = 0 THEN <<>>
    ELSE IF isCancellationRequested
    THEN <<ProcessingResult(uris[c][from], items[c][from])>>
    ELSE [k \in 1..n |-> ProcessingResult(uris[c][from + k - 1], items[c][from + k - 1])]

\* the ProcessingResults of batch k in the order of batchResults (input order)
RECURSIVE batchOutcomes(_, _, _)
batchOutcomes(c, from, n) ==
    IF n = 0 THEN <<>>
    ELSE <<ProcessingResult(uris[c][from], items[c][from])>> \o batchOutcomes(c, from + 1, n - 1)

\* Promise.allSettled resolves; the for loop over batchResults; the pacing test
Collect(c) ==
    /\ pc[c] = "await"
    /\ allSettled(c)
    /\ LET k == batchIndex[c]
           got == batchOutcomes(c, batchStart(c, k) + 1, Len(batches[c][k + 1]))
       IN  /\ results' = [results EXCEPT ![c] = @ \o got]
           /\ totalTokens' = [totalTokens EXCEPT ![c] = @ + SumTokens(got)]
           /\ IF pacingDue(c)
              THEN \* await this.delay(1000)
                   /\ pc' = [pc EXCEPT ![c] = "delay"]
                   /\ delays' = [delays EXCEPT ![c] = @ + 1]
                   /\ UNCHANGED batchIndex
              ELSE /\ pc' = [pc EXCEPT ![c] = "loop"]
                   /\ batchIndex' = [batchIndex EXCEPT ![c] = k + 1]
                   /\ UNCHANGED delays
    /\ UNCHANGED <<engine, lastExit, uris, batchSize, selectedModel, batches, items,
                   settleOrder, batchResult, dispatched, selectCalls, docs, outer>>

\* delay(1000) resolves; batchIndex++
DelayDone(c) ==
    /\ pc[c] = "delay"
    /\ pc' = [pc EXCEPT ![c] = "loop"]
    /\ batchIndex' = [batchIndex EXCEPT ![c] = @ + 1]
    /\ UNCHANGED <<engine, lastExit, uris, batchSize, selectedModel, batches, items,
                   settleOrder, results, totalTokens, batchResult, dispatched, delays,
                   selectCalls, docs, outer>>

\* showResults settles: return batchResult, or its rejection propagates; finally
processSettles(c, ok) ==
    /\ pc[c] = "show"
    /\ pc' = [pc EXCEPT ![c] = "idle"]
    /\ lastExit' = IF ok THEN "returned" ELSE "ShowResultsFailed"
    /\ Finally
    /\ DropLocals(c)

\* the process() call of the explorer command or the chat participant settles
ShowResultsDone(c, ok) == processSettles(c, ok) /\ UNCHANGED outer

(* ------------------------------------------------------------ cancel *)
\* a cancel() that makes a cancelled source when there is none
cancelOrCreate ==
    IF cancellationToken = {} THEN {[owner |-> "ui", cancelled |-> TRUE]}
    ELSE {[t EXCEPT !.cancelled = TRUE] : t \in cancellationToken}

\* if (this.cancellationToken) this.cancellationToken.cancel()
cancelToken == {[t EXCEPT !.cancelled = TRUE] : t \in cancellationToken}

\* BatchProcessor.cancel()
Cancel ==
    /\ cancellationToken' = cancelToken
    /\ UNCHANGED <<isProcessing, pc, lastExit, locals, outer>>

\* the progress notification's token.onCancellationRequested handler
ProgressCancel(c) ==
    /\ pc[c] \in {"loop", "await", "delay"}
    /\ cancellationToken' = cancelToken
    /\ UNCHANGED <<isProcessing, pc, lastExit, locals, outer>>

Next ==
    \/ \E c \in Callers : ProcessRejected(c)
    \/ \E c \in Callers, u \in TargetLists : \E b \in BatchSizesOf(c) : Process(c, u, b)
    \/ \E c \in Callers, avail \in SUBSET Models, m \in Models \cup {Undefined} :
          ModelSelected(c, avail, m)
    \/ \E c \in Callers : LoopHead(c)
    \/ \E c \in Callers, i \in 1..MaxTargets, err \in ItemErrors \cup {NoError} :
          ReadDone(c, i, err)
    \/ \E c \in Callers, i \in 1..MaxTargets, ok \in BOOLEAN, tok \in TokenVals :
          SendDone(c, i, ok, tok)
    \/ \* every document is written, each at an instant of its own
       \E c \in Callers, i \in 1..MaxTargets : SaveDone(c, i, "written", i)
    \/ \E c \in Callers : Collect(c)
    \/ \E c \in Callers : DelayDone(c)
    \/ \E c \in Callers, ok \in BOOLEAN : ShowResultsDone(c, ok)
    \/ Cancel
    \/ \E c \in Callers : ProgressCancel(c)

Spec == Init /\ [][Next]_vars

(* ------------------------------------------------------- the result sink *)
\* the readings of new Date() while the items of batch k are saved: the clock
\* ticks at most MaxTicks - 1 times during a batch and at least once between
\* two batches
stampsOfBatch(k) == {k * MaxTicks + t : t \in 1..MaxTicks}

\* one run at a time from the explorer command, with every outcome of
\* saveResult and every clock reading
SinkNext ==
    \/ \E u \in TargetLists, b \in 1..MaxBatch : Process("ui", u, b)
    \/ ModelSelected("ui", {"m1"}, "m1")
    \/ LoopHead("ui")
    \/ \E i \in 1..MaxTargets, err \in {NoError, "ReadError"} : ReadDone("ui", i, err)
    \/ \E i \in 1..MaxTargets, ok \in BOOLEAN : SendDone("ui", i, ok, NoTokens)
    \/ \E i \in 1..MaxTargets, out \in SaveOutcomes :
          \E timestamp \in stampsOfBatch(batchIndex["ui"]) : SaveDone("ui", i, out, timestamp)
    \/ Collect("ui")
    \/ DelayDone("ui")
    \/ \E ok \in BOOLEAN : ShowResultsDone("ui", ok)

SinkSpec == Init /\ [][SinkNext]_vars

(* ------------------------------------------- the MCP batch_process_files tool *)
\* JSON-RPC error codes of the responses
InvalidParams == -32602
InternalError == -32603
\* inputSchema of batch_size: minimum 1, maximum
MaxPolicyBatch == 50

\* the labels of the tasks the TaskManager holds, the names of the prompts the
\* PromptManager holds
Tasks == {"lint"}
Prompts == {"review"}

\* the argument values a client sends ("" stands for an absent argument)
McpTypes == {"task", "prompt", "other", ""}
McpNames == {"lint", "review", "nope"}
McpBatchSizes == {1, MaxBatch, MaxPolicyBatch + 1}
FilePatterns == {"*.ts", "*.md", "*.none"}

\* vscode.workspace.findFiles(pattern) on the workspace of the model
findFiles(pattern) ==
    CASE pattern = "*.ts" -> <<"a", "b">>
      [] pattern = "*.md" -> <<"c">>
      [] OTHER -> <<>>

\* for (const pattern of file_patterns) uris.push(...await findFiles(pattern))
RECURSIVE findAll(_)
findAll(patterns) ==
    IF patterns = <<>> THEN <<>>
    ELSE findFiles(Head(patterns)) \o findAll(Tail(patterns))

\* Array.from(new Set(list)): the first occurrence of each element, in order
RECURSIVE unique(_)
unique(list) ==
    IF list = <<>> THEN <<>>
    ELSE LET front == unique(SubSeq(list, 1, Len(list) - 1))
             last == list[Len(list)]
         IN IF \E i \in DOMAIN front : front[i] = last THEN front ELSE Append(front, last)

\* ChatParticipant.findFilesFromPatterns(patterns)
findFilesFromPatterns(patterns) == unique(findAll(patterns))

PatternLists ==
    {ps \in {<<p>> : p \in FilePatterns} \cup {<<p, q>> : p, q \in FilePatterns} :
        Len(findAll(ps)) <= MaxTargets}

McpArgs == [type : McpTypes, item_name : McpNames, file_patterns : PatternLists,
            batch_size : McpBatchSizes]

errorResponse(code, message) ==
    [error |-> {[code |-> code, message |-> message]}, result |-> {}]

\* the result literal built from the BatchResult process() returned
toolResult(r) ==
    [error |-> {},
     result |-> {[success |-> TRUE,
                  processed |-> r.totalProcessed,
                  successful |-> r.totalSuccessful,
                  failed |-> r.totalFailed,
                  tokens_used |-> r.totalTokens,
                  results |-> [i \in DOMAIN r.results |->
                                  [file |-> r.results[i].uri,
                                   success |-> r.results[i].success,
                                   error |-> r.results[i].error,
                                   tokens |-> r.results[i].tokens]]]}]

\* IsCallable of ECMAScript: a JSON string is not callable
IsCallable(v) == v \notin STRING

\* this.taskManager.getTasks().find(item_name): Array.prototype.find throws a
\* TypeError unless its argument is callable
getTasksFind(predicate) ==
    IF IsCallable(predicate)
    THEN [threw |-> {}, item |-> {t \in Tasks : FALSE}]
    ELSE [threw |-> {[isError |-> TRUE, message |-> "item_name is not a function"]},
          item |-> {}]

\* PromptManager.getPrompt(name): prompts.find(prompt => prompt.name === name)
getPrompt(name) == {p \in Prompts : p = name}

\* handleBatchProcessFiles up to its call of process(): the response it returns
\* before that call, {} when it reaches the call
earlyResponse(args) ==
    IF args.type = "" \/ args.item_name = "" \/ args.file_patterns = <<>>
    THEN {errorResponse(InvalidParams, "Invalid parameters. Required: type, item_name, file_patterns")}
    ELSE IF args.type = "task" /\ getTasksFind(args.item_name).threw # {}
    THEN {errorResponse(InternalError, errorMessage(e)) : e \in getTasksFind(args.item_name).threw}
    ELSE IF args.type = "task" /\ getTasksFind(args.item_name).item = {}
    THEN {errorResponse(InvalidParams, "Task not found")}
    ELSE IF args.type = "prompt" /\ getPrompt(args.item_name) = {}
    THEN {errorResponse(InvalidParams, "Prompt not found")}
    ELSE IF args.type \notin {"task", "prompt"}
    THEN {errorResponse(InvalidParams, "Type must be task or prompt")}
    ELSE IF Len(findAll(args.file_patterns)) = 0
    THEN {errorResponse(InvalidParams, "No files found matching the specified patterns")}
    ELSE {}

\* handleBatchProcessFiles(args, requestId) up to the first await of process(),
\* or to its response
handleBatchProcessFiles(args) ==
    /\ mcpArgs' = {args}
    /\ IF earlyResponse(args) # {}
       THEN /\ mcpResponse' = earlyResponse(args)
            /\ UNCHANGED <<engine, pc, lastExit, locals>>
       ELSE IF alreadyProcessing
       THEN \* process() throws, the catch of the handler answers
            /\ processThrows("mcp")
            /\ mcpResponse' = {errorResponse(InternalError,
                                   "Another batch operation is already in progress")}
       ELSE /\ processEnters("mcp", findAll(args.file_patterns), args.batch_size)
            /\ mcpResponse' = {}
    /\ UNCHANGED <<cancelledBefore, gateway, resolving, report>>

\* a tools/call request for batch_process_files arrives (one at a time)
McpBatchProcessFiles(args) ==
    /\ mcpArgs = {} \/ mcpResponse # {}
    /\ handleBatchProcessFiles(args)
    /\ UNCHANGED services

\* the process() call of the handler settles: the result literal, or the catch
batchProcessSettles(ok) ==
    /\ processSettles("mcp", ok)
    /\ mcpResponse' = IF ok
                      THEN {toolResult(r) : r \in batchResult["mcp"]}
                      ELSE {errorResponse(InternalError, "showResults failed")}
    /\ UNCHANGED <<mcpArgs, cancelledBefore, gateway, resolving, report>>

McpProcessSettles(ok) ==
    /\ batchProcessSettles(ok)
    /\ UNCHANGED services

McpCallers == {"ui", "mcp"}

\* the MCP tool next to short runs of the explorer command, with one model
\* available, targets that can be read and documents that can be written
McpNext ==
    \/ \E args \in McpArgs : McpBatchProcessFiles(args)
    \/ \E u \in TargetLists : Len(u) = 1 /\ Process("ui", u, 1)
    \/ ProcessRejected("ui")
    \/ \E c \in McpCallers : ModelSelected(c, {"m1"}, "m1")
    \/ \E c \in McpCallers : LoopHead(c)
    \/ \E c \in McpCallers, i \in 1..MaxTargets : ReadDone(c, i, NoError)
    \/ \E c \in McpCallers, i \in 1..MaxTargets, ok \in BOOLEAN : SendDone(c, i, ok, NoTokens)
    \/ \E c \in McpCallers, i \in 1..MaxTargets : SaveDone(c, i, "written", i)
    \/ \E c \in McpCallers : Collect(c)
    \/ \E c \in McpCallers : DelayDone(c)
    \/ \E ok \in BOOLEAN : ShowResultsDone("ui", ok)
    \/ \E ok \in BOOLEAN : McpProcessSettles(ok)

McpSpec == Init /\ [][McpNext]_vars

(* ------------------------------------------------- runs after cancelled runs *)
\* the process() call of the explorer command settles; the history notes
\* whether the run that ends had been asked to cancel
RunEnds(c, ok) ==
    /\ processSettles(c, ok)
    /\ cancelledBefore' = (cancelledBefore \/ isCancellationRequested)
    /\ UNCHANGED <<mcpIO, gateway, resolving, report, services>>

\* runs of the explorer command one after the other, with cancel() and the
\* progress notification's cancel button at any moment
CancelNext ==
    \/ \E u \in TargetLists, b \in 1..MaxBatch : Process("ui", u, b)
    \/ ModelSelected("ui", {"m1"}, "m1")
    \/ LoopHead("ui")
    \/ \E i \in 1..MaxTargets : ReadDone("ui", i, NoError)
    \/ \E i \in 1..MaxTargets, ok \in BOOLEAN : SendDone("ui", i, ok, NoTokens)
    \/ \E i \in 1..MaxTargets : SaveDone("ui", i, "written", i)
    \/ Collect("ui")
    \/ DelayDone("ui")
    \/ \E ok \in BOOLEAN : RunEnds("ui", ok)
    \/ Cancel
    \/ ProgressCancel("ui")

CancelSpec == Init /\ [][CancelNext]_vars

(* ------------------------------------------------------- the model gateway *)
\* the elements of a list
Range(list) == {list[i] : i \in DOMAIN list}

\* the lists a model discovery can deliver
ModelLists == {<<>>, <<"m1">>, <<"m1", "m2">>}

\* a discovery (vscode.lm.selectChatModels or GET /api/tags) answers or fails
DiscoveryOutcomes ==
    {[ok |-> TRUE, models |-> l] : l \in ModelLists} \cup {[ok |-> FALSE, models |-> <<>>]}

\* a refreshAvailableModels() without its try/catch
discoveryUncaught(o) == ~o.ok

\* refreshAvailableModels: both discoveries run inside try { } catch { }, so
\* the call never rejects
discoveryRejects(o) == FALSE

\* refreshAvailableModels: the list it leaves in this.availableModels
refreshAvailableModels(o) == IF o.ok THEN o.models ELSE <<>>

\* a selectModel() that shows the quick pick for every non-empty list
selectFromAsking(models) ==
    IF Len(models) = 0
    THEN [pc |-> "done", asked |-> FALSE, ret |-> Undefined]
    ELSE [pc |-> "pick", asked |-> TRUE, ret |-> Undefined]

\* selectModel after getAvailableModels(): no model returns undefined, one
\* model returns it, several show the quick pick
selectFrom(models) ==
    IF Len(models) = 0
    THEN [pc |-> "done", asked |-> FALSE, ret |-> Undefined]
    ELSE IF Len(models) = 1
    THEN [pc |-> "done", asked |-> FALSE, ret |-> models[1]]
    ELSE [pc |-> "pick", asked |-> TRUE, ret |-> Undefined]

\* process() calls selectModel(), which calls getAvailableModels(): an empty
\* cache starts a discovery, a filled one is returned as it is
SelectModelCalled(u, b) ==
    /\ processEnters("ui", u, b)
    /\ IF Len(availableModels) = 0
       THEN gw' = [gw EXCEPT !.pc = "discover", !.discovered = TRUE, !.asked = FALSE,
                             !.answer = Undefined, !.ret = Undefined,
                             !.failed = FALSE, !.failedBefore = (@ \/ gw.failed)]
       ELSE LET sel == selectFrom(availableModels)
            IN  gw' = [gw EXCEPT !.pc = sel.pc, !.discovered = FALSE, !.asked = sel.asked,
                                 !.answer = Undefined, !.ret = sel.ret,
                                 !.failed = FALSE, !.failedBefore = (@ \/ gw.failed)]
    /\ UNCHANGED <<availableModels, mcpIO, cancelledBefore, resolving, report, services>>

\* the discovery settles: refreshAvailableModels stores its list, and
\* getAvailableModels and selectModel go on with the stored list
RefreshAvailableModelsDone(o) ==
    /\ gw.pc = "discover"
    /\ IF discoveryRejects(o)
       THEN /\ gw' = [gw EXCEPT !.pc = "threw"]
            /\ UNCHANGED availableModels
       ELSE /\ availableModels' = refreshAvailableModels(o)
            /\ LET sel == selectFrom(availableModels')
               IN  gw' = [gw EXCEPT !.pc = sel.pc, !.asked = sel.asked, !.ret = sel.ret,
                                    !.failed = ~o.ok]
    /\ UNCHANGED <<engine, pc, lastExit, locals, mcpIO, cancelledBefore, resolving, report,
                   services>>

\* the quick pick closes with a model or without one
ShowQuickPickDone(answer) ==
    /\ gw.pc = "pick"
    /\ answer \in Range(availableModels) \cup {Undefined}
    /\ gw' = [gw EXCEPT !.pc = "done", !.answer = answer, !.ret = answer]
    /\ UNCHANGED <<engine, pc, lastExit, locals, mcpIO, cancelledBefore, availableModels,
                   resolving, report, services>>

\* selectModel() returns to process()
SelectModelReturns ==
    /\ gw.pc = "done"
    /\ ModelSelected("ui", Range(availableModels), gw.ret)

\* runs of the explorer command with the gateway's discovery and quick pick
GatewayNext ==
    \/ \E u \in TargetLists, b \in 1..MaxBatch : SelectModelCalled(u, b)
    \/ \E o \in DiscoveryOutcomes : RefreshAvailableModelsDone(o)
    \/ \E answer \in Models \cup {Undefined} : ShowQuickPickDone(answer)
    \/ SelectModelReturns
    \/ LoopHead("ui")
    \/ \E i \in 1..MaxTargets : ReadDone("ui", i, NoError)
    \/ \E i \in 1..MaxTargets, ok \in BOOLEAN : SendDone("ui", i, ok, NoTokens)
    \/ \E i \in 1..MaxTargets : SaveDone("ui", i, "written", i)
    \/ Collect("ui")
    \/ DelayDone("ui")
    \/ \E ok \in BOOLEAN : ShowResultsDone("ui", ok)

GatewaySpec == Init /\ [][GatewayNext]_vars

(* ------------------------------------------------------ the prompt resolver *)
\* texts are sequences of tokens: a placeholder, a replacement pattern or a
\* piece of text without braces and dollar signs is one token
MaxTemplate == 2
MaxContent == 2
MaxResolutions == 2

TemplateTokens == {"A:", "{{FILE_CONTENT}}", "{{FILE_PATH}}", "{{FILE_NAME}}",
                   "{{WORKSPACE_PATH}}", "{{FOO}}", "{{file_name}}"}
ContentTokens == {"hi", "{{FILE_PATH}}", "{{FILE_NAME}}", "$&"}

Texts(tokens, n) == UNION {[1..k -> tokens] : k \in 0..n}

\* uri.fsPath of the target /x/y/report.txt
TargetPath == <<"/", "x", "/", "y", "/", "report.txt">>

\* vscode.workspace.workspaceFolders: no folder open, or the folder /ws
WorkspaceFolderLists == {<<>>, << <<"/", "ws">> >>}

\* a Task (command, aiPrompt) or a Prompt (content)
Operations ==
    {[type |-> "task", item |-> [command |-> "lint", aiPrompt |-> t, content |-> <<>>]]
        : t \in Texts(TemplateTokens, MaxTemplate)}
    \cup {[type |-> "prompt", item |-> [command |-> "", aiPrompt |-> <<>>, content |-> t]]
        : t \in Texts(TemplateTokens, MaxTemplate)}

\* path.basename: what follows the last separator
pathBasename(p) ==
    LET seps == {i \in DOMAIN p : p[i] = "/"}
        last == IF seps = {} THEN 0 ELSE CHOOSE i \in seps : \A j \in seps : j <= i
    IN  SubSeq(p, last + 1, Len(p))

\* a replacement string as String.prototype.replace expands it for one match:
\* $& stands for the matched text
RECURSIVE expandReplacement(_, _)
expandReplacement(value, matched) ==
    IF value = <<>> THEN <<>>
    ELSE (IF Head(value) = "$&" THEN <<matched>> ELSE <<Head(value)>>)
         \o expandReplacement(Tail(value), matched)

\* text.replace(/placeholder/g, value): one pass over text, the inserted text
\* is not scanned again by the same call
RECURSIVE replace(_, _, _)
replace(text, placeholder, value) ==
    IF text = <<>> THEN <<>>
    ELSE (IF Head(text) = placeholder
          THEN expandReplacement(value, placeholder)
          ELSE <<Head(text)>>)
         \o replace(Tail(text), placeholder, value)

\* vscode.workspace.workspaceFolders?.[0]?.uri.fsPath || ''
workspacePath(folders) == IF Len(folders) = 0 THEN <<>> ELSE folders[1]

\* a buildPrompt whose text depends on how many prompts were built before
buildPromptNumbered(uri, content, type, item) ==
    IF Len(resolver.prompts) = 0 THEN <<>> ELSE <<"again">>

\* buildPrompt: the template of the operation, then the four replace calls,
\* each over the result of the one before
buildPrompt(uri, content, type, item) ==
    LET promptTemplate ==
            IF type = "task"
            THEN IF item.aiPrompt # <<>>
                 THEN item.aiPrompt
                 ELSE <<"Execute task: ", item.command, "\n\nFile content:\n">> \o content
            ELSE item.content
    IN  replace(replace(replace(replace(promptTemplate,
            "{{FILE_CONTENT}}", content),
            "{{FILE_PATH}}", uri),
            "{{FILE_NAME}}", pathBasename(uri)),
            "{{WORKSPACE_PATH}}", workspacePath(workspaceFolders))

\* the arguments of a processItem's buildPrompt call
ResolverInit ==
    /\ EngineInit
    /\ workspaceFolders \in WorkspaceFolderLists
    /\ \E op \in Operations, content \in Texts(ContentTokens, MaxContent) :
          resolver = [uri |-> TargetPath, content |-> content, type |-> op.type,
                      item |-> op.item, prompts |-> <<>>]
    /\ report = [summary |-> {}, documents |-> {}]
    /\ parsing = [file |-> <<>>, parsed |-> {}]
    /\ partition = [i |-> 0, batches |-> <<>>]
    /\ rpc = [request |-> {}, pc |-> "idle", outcome |-> {}]
    /\ settings = [provider |-> "vscode.lm", source |-> "vscode.lm", inflight |-> <<>>,
                   offered |-> {}]
    /\ library = [folder |-> {}, prompts |-> <<>>, refreshes |-> <<>>]

\* this.buildPrompt(uri, content, type, item) with the folders open at the call
BuildPrompt ==
    /\ Len(resolver.prompts) < MaxResolutions
    /\ resolver' = [resolver EXCEPT !.prompts =
                       Append(@, [folders |-> workspaceFolders,
                                  prompt |-> buildPrompt(resolver.uri, resolver.content,
                                                         resolver.type, resolver.item)])]
    /\ UNCHANGED <<engine, pc, lastExit, locals, mcpIO, cancelledBefore, gateway, report, services,
                   workspaceFolders>>

\* the user opens or closes a workspace folder
WorkspaceFoldersChanged(folders) ==
    /\ folders # workspaceFolders
    /\ workspaceFolders' = folders
    /\ UNCHANGED <<engine, pc, lastExit, locals, mcpIO, cancelledBefore, gateway, report, services,
                   resolver>>

ResolverNext ==
    \/ BuildPrompt
    \/ \E folders \in WorkspaceFolderLists : WorkspaceFoldersChanged(folders)

ResolverSpec == ResolverInit /\ [][ResolverNext]_vars

(* ------------------------------------------------------------ the report *)
\* what the summary notification can resolve to: a button, or nothing when
\* it is dismissed
ShowResultsActions == {"View Results", "View Errors", "dismissed"}

\* result.results.filter(r => r.success) and filter(r => !r.success)
RECURSIVE filterResults(_, _)
filterResults(rs, wantSuccess) ==
    IF rs = <<>> THEN <<>>
    ELSE (IF Head(rs).success = wantSuccess THEN <<Head(rs)>> ELSE <<>>)
         \o filterResults(Tail(rs), wantSuccess)

\* showResultsDocument: the totals, then heading, Path, Model and Tokens for
\* every successful result (the Response block is left out)
showResultsDocument(result) ==
    LET successful == filterResults(result.results, TRUE)
    IN  [title |-> "# Batch AI Results",
         totals |-> {[processed |-> result.totalProcessed,
                      successful |-> result.totalSuccessful,
                      failed |-> result.totalFailed,
                      tokens |-> result.totalTokens]},
         entries |-> [i \in DOMAIN successful |->
                         [heading |-> basename(successful[i].uri),
                          path |-> {successful[i].uri},
                          model |-> {IF successful[i].model = Undefined
                                     THEN "Unknown" ELSE successful[i].model},
                          tokens |-> {tokensOrZero(successful[i].tokens)},
                          error |-> {}]]]

\* showErrorsDocument: heading, Path and Error for every failed result; no
\* document when nothing failed
showErrorsDocument(result) ==
    LET failed == filterResults(result.results, FALSE)
    IN  IF Len(failed) = 0 THEN {}
        ELSE {[title |-> "# Batch AI Errors",
               totals |-> {},
               entries |-> [i \in DOMAIN failed |->
                               [heading |-> basename(failed[i].uri),
                                path |-> {failed[i].uri},
                                model |-> {},
                                tokens |-> {},
                                error |-> {failed[i].error}]]]}

\* showResults after the notification resolved: the documents it opens
showResults(result, action) ==
    IF action = "View Results" THEN {showResultsDocument(result)}
    ELSE IF action = "View Errors" THEN showErrorsDocument(result)
    ELSE {}

\* an accepted process() call; what an earlier run showed is no part of the
\* report of this one
ProcessForReport(c, u, b) ==
    /\ processEnters(c, u, b)
    /\ report' = [summary |-> {}, documents |-> {}]
    /\ UNCHANGED <<mcpIO, cancelledBefore, gateway, resolving, services>>

\* the summary notification resolves, showResults opens its document and
\* process() settles
ShowResultsAnswered(c, action, ok) ==
    /\ processSettles(c, ok)
    /\ report' = [summary |-> batchResult[c],
                  documents |-> UNION {showResults(r, action) : r \in batchResult[c]}]
    /\ UNCHANGED <<mcpIO, cancelledBefore, gateway, resolving, services>>

\* one run at a time from the explorer command, items failing at the read or
\* at the backend, and every answer to the summary notification
ReportNext ==
    \/ \E u \in TargetLists, b \in 1..MaxBatch : ProcessForReport("ui", u, b)
    \/ \E m \in Models : ModelSelected("ui", {m}, m)
    \/ LoopHead("ui")
    \/ \E i \in 1..MaxTargets, err \in {NoError, "ReadError"} : ReadDone("ui", i, err)
    \/ \E i \in 1..MaxTargets, ok \in BOOLEAN, tok \in TokenVals : SendDone("ui", i, ok, tok)
    \/ \E i \in 1..MaxTargets : SaveDone("ui", i, "written", i)
    \/ Collect("ui")
    \/ DelayDone("ui")
    \/ \E action \in ShowResultsActions, ok \in BOOLEAN : ShowResultsAnswered("ui", action, ok)

ReportSpec == Init /\ [][ReportNext]_vars

(* ------------------------------------------------------- the prompt parser *)
\* a prompt file is a sequence of tokens: "---", a line break, a colon, a
\* comma, or a word without any of these
MaxLines == 4

\* the lines a prompt file is drawn from: the delimiter, a line that starts
\* with it, a key with "---" in its value, a list, a line of text
PromptLines == {<<"---">>,
                <<"---", "x">>,
                <<"description", ":", "a", "---", "b">>,
                <<"tags", ":", "a", ",", "b">>,
                <<"body">>}

PromptFiles == UNION {[1..k -> PromptLines] : k \in 0..MaxLines}

\* lines.join('\n')
RECURSIVE join(_)
join(lines) ==
    IF lines = <<>> THEN <<>>
    ELSE IF Len(lines) = 1 THEN lines[1]
    ELSE lines[1] \o <<"\n">> \o join(Tail(lines))

\* String.prototype.indexOf(token, from): 0 when there is none
indexOf(text, token, from) ==
    LET hits == {k \in from..Len(text) : text[k] = token}
    IN  IF hits = {} THEN 0 ELSE CHOOSE k \in hits : \A j \in hits : k <= j

\* String.prototype.trim: line breaks are the white space of these texts
RECURSIVE trimStart(_)
trimStart(text) ==
    IF text # <<>> /\ Head(text) = "\n" THEN trimStart(Tail(text)) ELSE text

RECURSIVE trimEnd(_)
trimEnd(text) ==
    IF text # <<>> /\ text[Len(text)] = "\n"
    THEN trimEnd(SubSeq(text, 1, Len(text) - 1))
    ELSE text

trim(text) == trimEnd(trimStart(text))

\* String.prototype.split(separator)
RECURSIVE split(_, _)
split(text, separator) ==
    LET k == indexOf(text, separator, 1)
    IN  IF k = 0 THEN <<text>>
        ELSE <<SubSeq(text, 1, k - 1)>> \o split(SubSeq(text, k + 1, Len(text)), separator)

\* value.split(',').map(s => s.trim())
splitList(value) == [i \in DOMAIN split(value, ",") |-> trim(split(value, ",")[i])]

\* metadata[key] = value
setKey(metadata, key, value) ==
    {m \in metadata : m.key # key} \cup {[key |-> key, value |-> value]}

\* the for loop over the lines of the frontmatter: a line with a colon sets a
\* key, tags and model to a list, any other key to the text after the colon
RECURSIVE parseLines(_, _)
parseLines(lines, metadata) ==
    IF lines = <<>> THEN metadata
    ELSE LET line == Head(lines)
             colonIndex == indexOf(line, ":", 1)
             key == trim(SubSeq(line, 1, colonIndex - 1))
             value == trim(SubSeq(line, colonIndex + 1, Len(line)))
         IN  IF colonIndex # 0
             THEN parseLines(Tail(lines),
                             setKey(metadata, key,
                                    IF key = <<"tags">> \/ key = <<"model">>
                                    THEN splitList(value) ELSE <<value>>))
             ELSE parseLines(Tail(lines), metadata)

\* parsePrompt: content.startsWith('---'), content.indexOf('---', 3), the
\* frontmatter between the two and the prompt after the second
parsePrompt(content) ==
    LET frontmatterEnd == indexOf(content, "---", 2)
    IN  IF content # <<>> /\ content[1] = "---" /\ frontmatterEnd # 0
        THEN [content |-> trim(SubSeq(content, frontmatterEnd + 1, Len(content))),
              metadata |-> parseLines(split(trim(SubSeq(content, 2, frontmatterEnd - 1)), "\n"),
                                      {})]
        ELSE [content |-> content, metadata |-> {}]

\* a prompt file read by loadPrompts
ParserInit ==
    /\ EngineInit
    /\ workspaceFolders = <<>>
    /\ resolver = [uri |-> <<"report.txt">>, content |-> <<>>, type |-> "prompt",
                   item |-> [command |-> "", aiPrompt |-> <<>>, content |-> <<>>],
                   prompts |-> <<>>]
    /\ report = [summary |-> {}, documents |-> {}]
    /\ \E file \in PromptFiles : parsing = [file |-> file, parsed |-> {}]
    /\ partition = [i |-> 0, batches |-> <<>>]
    /\ rpc = [request |-> {}, pc |-> "idle", outcome |-> {}]
    /\ settings = [provider |-> "vscode.lm", source |-> "vscode.lm", inflight |-> <<>>,
                   offered |-> {}]
    /\ library = [folder |-> {}, prompts |-> <<>>, refreshes |-> <<>>]

\* this.parsePrompt(file, content, filePath)
ParsePrompt ==
    /\ parsing.parsed = {}
    /\ parsing' = [parsing EXCEPT !.parsed = {parsePrompt(join(parsing.file))}]
    /\ UNCHANGED <<engine, pc, lastExit, locals, mcpIO, cancelledBefore, gateway, resolving,
                   report, partition, extension>>

ParserNext == ParsePrompt

ParserSpec == ParserInit /\ [][ParserNext]_vars

(* ------------------------------------------------- createBatches as a loop *)
\* the batch sizes that reach process(): the MCP tool passes batch_size as it
\* came, zero and negative numbers included
AnyBatchSizes == (0 - 1)..MaxBatch

\* createBatches pushes at most one batch per target when the size is
\* positive; the model follows the loop one push further
MaxPushes == MaxTargets + 1

\* a relative index of Array.prototype.slice: negative counts from the end
relativeIndex(k, len) == IF k < 0 THEN (IF len + k < 0 THEN 0 ELSE len + k) ELSE Min(k, len)

\* Array.prototype.slice(from, to) for any integers
sliceAny(list, from, to) ==
    SubSeq(list, relativeIndex(from, Len(list)) + 1, relativeIndex(to, Len(list)))

\* selectModel() settles with a model; createBatches is entered: i = 0
CreateBatchesCalled(c, m) ==
    /\ pc[c] = "select"
    /\ m \in Models
    /\ selectedModel' = [selectedModel EXCEPT ![c] = m]
    /\ partition' = [i |-> 0, batches |-> <<>>]
    /\ pc' = [pc EXCEPT ![c] = "partition"]
    /\ UNCHANGED <<engine, lastExit, uris, batchSize, batches, batchIndex, items, settleOrder,
                   results, totalTokens, batchResult, dispatched, delays, selectCalls, docs,
                   mcpIO, cancelledBefore, gateway, resolving, report, parsing, extension>>

\* one test of i < items.length: a push and i += batchSize, or the return of
\* the batches and the entry into withProgress
CreateBatchesStep(c) ==
    /\ pc[c] = "partition"
    /\ IF partition.i < Len(uris[c])
       THEN /\ Len(partition.batches) < MaxPushes
            /\ partition' = [i |-> partition.i + batchSize[c],
                             batches |-> Append(partition.batches,
                                                sliceAny(uris[c], partition.i,
                                                         partition.i + batchSize[c]))]
            /\ UNCHANGED <<pc, batches, batchIndex, items>>
       ELSE /\ batches' = [batches EXCEPT ![c] = partition.batches]
            /\ batchIndex' = [batchIndex EXCEPT ![c] = 0]
            /\ items' = [items EXCEPT ![c] = [i \in 1..Len(uris[c]) |-> NewItem]]
            /\ pc' = [pc EXCEPT ![c] = "loop"]
            /\ partition' = [i |-> 0, batches |-> <<>>]
    /\ UNCHANGED <<engine, lastExit, uris, batchSize, selectedModel, settleOrder, results,
                   totalTokens, batchResult, dispatched, delays, selectCalls, docs,
                   mcpIO, cancelledBefore, gateway, resolving, report, parsing, extension>>

\* runs started by the MCP tool with any batch size, createBatches run step
\* by step
PartitionNext ==
    \/ \E u \in TargetLists, b \in AnyBatchSizes : Process("mcp", u, b)
    \/ \E m \in Models : CreateBatchesCalled("mcp", m)
    \/ CreateBatchesStep("mcp")
    \/ LoopHead("mcp")
    \/ \E i \in 1..MaxTargets : ReadDone("mcp", i, NoError)
    \/ \E i \in 1..MaxTargets, ok \in BOOLEAN : SendDone("mcp", i, ok, NoTokens)
    \/ \E i \in 1..MaxTargets : SaveDone("mcp", i, "written", i)
    \/ Collect("mcp")
    \/ DelayDone("mcp")
    \/ \E ok \in BOOLEAN : ShowResultsDone("mcp", ok)

PartitionSpec == Init /\ [][PartitionNext]_vars

(* ------------------------------------------------- the request dispatcher *)
MethodNotFound == -32601

Methods == {"tools/list", "tools/call", "resources/list", "resources/read", "ping"}
ToolNames == {"batch_process_files", "list_tasks", "list_prompts", "get_processing_status",
              "nope"}
RequestIds == {"1", "2", Undefined}

\* the arguments of the batch tool the requests of the model carry
RequestArgs ==
    {a \in McpArgs : /\ a.type \in {"prompt", ""}
                     /\ a.item_name = "review"
                     /\ a.file_patterns \in {<<"*.md">>, <<"*.none">>}
                     /\ a.batch_size = 1}

\* request.params: {} when undefined; arguments is {} when undefined
ToolParams ==
    {{[name |-> n, arguments |-> as, path |-> ""]} :
        n \in ToolNames, as \in {{}} \cup {{a} : a \in RequestArgs}}
ReadParams == {{[name |-> Undefined, arguments |-> {}, path |-> f]} : f \in {"", "f.txt"}}

\* the requests of the model: params are given to the methods that read them
Requests ==
    {r \in [method : Methods, params : {{}} \cup ToolParams \cup ReadParams, id : RequestIds] :
        \/ r.params = {}
        \/ r.method = "tools/call" /\ r.params \in ToolParams
        \/ r.method = "resources/read" /\ r.params \in ReadParams}

\* an MCPResponse with its id
response(r, id) == [error |-> r.error, result |-> r.result, id |-> id]

fulfilled(r) == [status |-> "fulfilled", response |-> {r}, reason |-> {}]
rejected(e) == [status |-> "rejected", response |-> {}, reason |-> {e}]

\* const { name, arguments: args } = request.params
DestructureError ==
    [isError |-> TRUE,
     message |-> "Cannot destructure property 'name' of 'request.params' as it is undefined."]

\* handleListTools
listTools(request) ==
    response([error |-> {}, result |-> {[tools |-> ToolNames \ {"nope"}]}], request.id)

\* handleListTasksTool, handleListPromptsTool, handleGetProcessingStatus
listTasksTool(id) == response([error |-> {}, result |-> {[list |-> Tasks]}], id)
listPromptsTool(id) == response([error |-> {}, result |-> {[list |-> Prompts]}], id)
processingStatus(id) ==
    response([error |-> {}, result |-> {[processing |-> isProcessing]}], id)

\* the promise of handleToolCall for the tools that answer without an await:
\* {} for batch_process_files
toolCallSettled(request) ==
    IF request.params = {} THEN {rejected(DestructureError)}
    ELSE LET params == CHOOSE q \in request.params : TRUE IN
         CASE params.name = "batch_process_files" -> {}
           [] params.name = "list_tasks" -> {fulfilled(listTasksTool(request.id))}
           [] params.name = "list_prompts" -> {fulfilled(listPromptsTool(request.id))}
           [] params.name = "get_processing_status" -> {fulfilled(processingStatus(request.id))}
           [] OTHER -> {fulfilled(response(errorResponse(InvalidParams, "Unknown tool"),
                                           request.id))}

\* return p in the try block of handleRequest: the call settles as p does, a
\* rejection of p is not an exception of the try block
returned(p) == p

\* handleRequest(request) up to its first await, for the methods other than the
\* batch tool: the call has settled, or waits in a resource handler
HandleRequest(request) ==
    /\ rpc.pc \in {"idle", "settled"}
    /\ ~(/\ request.method = "tools/call"
         /\ toolCallSettled(request) = {})
    /\ rpc' =
         CASE request.method = "tools/list" ->
                [request |-> {request}, pc |-> "settled",
                 outcome |-> {fulfilled(listTools(request))}]
           [] request.method = "tools/call" ->
                [request |-> {request}, pc |-> "settled",
                 outcome |-> {returned(p) : p \in toolCallSettled(request)}]
           [] request.method = "resources/list" ->
                IF workspaceFolders = <<>>
                THEN [request |-> {request}, pc |-> "settled",
                      outcome |-> {fulfilled(response([error |-> {},
                                                       result |-> {[resources |-> <<>>]}],
                                                      request.id))}]
                ELSE [request |-> {request}, pc |-> "list", outcome |-> {}]
           [] request.method = "resources/read" ->
                IF \A q \in request.params : q.path = ""
                THEN [request |-> {request}, pc |-> "settled",
                      outcome |-> {fulfilled(response(errorResponse(InvalidParams,
                                                                    "Missing file path"),
                                                      request.id))}]
                ELSE [request |-> {request}, pc |-> "read", outcome |-> {}]
           [] OTHER ->
                [request |-> {request}, pc |-> "settled",
                 outcome |-> {fulfilled(response(errorResponse(MethodNotFound,
                                                               "Method not found"),
                                                 request.id))}]
    /\ UNCHANGED <<engine, pc, lastExit, locals, mcpIO, cancelledBefore, gateway, resolving,
                   report, parsing, partition, settings, library>>

\* tools/call of batch_process_files: handleToolCall awaits handleBatchProcessFiles,
\* whose try block covers the destructuring of undefined arguments
HandleBatchToolCall(request) ==
    /\ rpc.pc \in {"idle", "settled"}
    /\ request.method = "tools/call"
    /\ toolCallSettled(request) = {}
    /\ LET params == CHOOSE q \in request.params : TRUE IN
       IF params.arguments = {}
       THEN /\ rpc' = [request |-> {request}, pc |-> "settled",
                       outcome |-> {fulfilled(response(
                                      errorResponse(InternalError,
                                          "Cannot destructure property 'type' of 'args' as it is undefined."),
                                      request.id))}]
            /\ UNCHANGED <<engine, pc, lastExit, locals, mcpIO, cancelledBefore, gateway,
                           resolving, report>>
       ELSE /\ \E args \in params.arguments : handleBatchProcessFiles(args)
            /\ rpc' = IF mcpResponse' = {}
                      THEN [request |-> {request}, pc |-> "batch", outcome |-> {}]
                      ELSE [request |-> {request}, pc |-> "settled",
                            outcome |-> {fulfilled(response(r, request.id)) :
                                            r \in mcpResponse'}]
    /\ UNCHANGED <<parsing, partition, settings, library>>

\* the process() call of the batch tool settles, and with it handleToolCall and
\* handleRequest
BatchToolCallSettles(ok) ==
    /\ rpc.pc = "batch"
    /\ batchProcessSettles(ok)
    /\ rpc' = [rpc EXCEPT !.pc = "settled",
                          !.outcome = {fulfilled(response(r, q.id)) :
                                          r \in mcpResponse', q \in rpc.request}]
    /\ UNCHANGED <<parsing, partition, settings, library>>

\* findFiles of handleListResources, readFile of handleReadResource: each
\* handler catches the rejection and answers it
ResourceSettles(ok) ==
    /\ rpc.pc \in {"list", "read"}
    /\ rpc' = [rpc EXCEPT
                 !.pc = "settled",
                 !.outcome =
                    {fulfilled(response(
                        IF ok THEN [error |-> {}, result |-> {[content |-> rpc.pc]}]
                        ELSE errorResponse(InternalError, "Error: resource unavailable"),
                        q.id)) : q \in rpc.request}]
    /\ UNCHANGED <<engine, pc, lastExit, locals, mcpIO, cancelledBefore, gateway, resolving,
                   report, parsing, partition, settings, library>>

\* requests one at a time next to short runs of the explorer command, in a
\* workspace that may have a folder
RequestNext ==
    \/ \E request \in Requests : HandleRequest(request)
    \/ \E request \in Requests : HandleBatchToolCall(request)
    \/ \E ok \in BOOLEAN : BatchToolCallSettles(ok)
    \/ \E ok \in BOOLEAN : ResourceSettles(ok)
    \/ \E folders \in WorkspaceFolderLists : WorkspaceFoldersChanged(folders)
    \/ \E u \in TargetLists : Len(u) = 1 /\ Process("ui", u, 1)
    \/ \E c \in McpCallers : ModelSelected(c, {"m1"}, "m1")
    \/ \E c \in McpCallers : LoopHead(c)
    \/ \E c \in McpCallers, i \in 1..MaxTargets : ReadDone(c, i, NoError)
    \/ \E c \in McpCallers, i \in 1..MaxTargets : SendDone(c, i, TRUE, NoTokens)
    \/ \E c \in McpCallers, i \in 1..MaxTargets : SaveDone(c, i, "written", i)
    \/ \E c \in McpCallers : Collect(c)
    \/ ShowResultsDone("ui", TRUE)

RequestSpec == Init /\ [][RequestNext]_vars

(* ------------------------------------------- the gateway's configuration *)
\* refreshAvailableModels() calls that may be waiting for their backend at once
MaxDiscoveries == 2

Providers == {"vscode.lm", "ollama"}

\* the model lists a discovery of each backend can yield
ModelsOf(provider) ==
    IF provider = "vscode.lm" THEN {<<>>, <<"copilot">>, <<"copilot", "gpt">>}
    ELSE {<<>>, <<"llama">>}

\* refreshAvailableModels() up to its await: it reads this.provider and asks
\* that backend; awaited tells whether getAvailableModels() waits for the call
discovery(provider, awaited) == [provider |-> provider, awaited |-> awaited]

\* what selectModel() goes on with: the list and the provider it names
offer(provider, source, models) == [provider |-> provider, source |-> source, models |-> models]

without(list, k) == [i \in 1..(Len(list) - 1) |-> IF i < k THEN list[i] ELSE list[i + 1]]

\* the constructor has read the configuration and started its discovery
ConfigInit ==
    /\ EngineInit
    /\ workspaceFolders = <<>>
    /\ resolver = [uri |-> <<"report.txt">>, content |-> <<>>, type |-> "prompt",
                   item |-> [command |-> "", aiPrompt |-> <<>>, content |-> <<>>],
                   prompts |-> <<>>]
    /\ report = [summary |-> {}, documents |-> {}]
    /\ parsing = [file |-> <<>>, parsed |-> {}]
    /\ partition = [i |-> 0, batches |-> <<>>]
    /\ rpc = [request |-> {}, pc |-> "idle", outcome |-> {}]
    /\ \E p \in Providers :
          settings = [provider |-> p, source |-> "none",
                      inflight |-> <<discovery(p, FALSE)>>, offered |-> {}]
    /\ library = [folder |-> {}, prompts |-> <<>>, refreshes |-> <<>>]

\* onDidChangeConfiguration: updateConfiguration() reads the provider and
\* starts a discovery it does not wait for
UpdateConfiguration(p) ==
    /\ Len(settings.inflight) < MaxDiscoveries
    /\ settings' = [settings EXCEPT !.provider = p,
                                    !.inflight = Append(@, discovery(p, FALSE))]
    /\ UNCHANGED <<engine, pc, lastExit, locals, mcpIO, cancelledBefore, gateway, resolving,
                   report, parsing, partition, rpc, library>>

\* a discovery settles: the list of its backend, or [] from the catch, is
\* assigned to this.availableModels; a getAvailableModels() waiting for it
\* returns this.availableModels to selectModel()
DiscoveryCompletes(k, models) ==
    /\ k \in DOMAIN settings.inflight
    /\ models \in ModelsOf(settings.inflight[k].provider)
    /\ availableModels' = models
    /\ settings' = [settings EXCEPT
                      !.source = settings.inflight[k].provider,
                      !.inflight = without(@, k),
                      !.offered = IF settings.inflight[k].awaited
                                  THEN {offer(settings.provider, settings.inflight[k].provider,
                                              models)}
                                  ELSE @]
    /\ UNCHANGED <<engine, pc, lastExit, locals, mcpIO, cancelledBefore, gw, resolving,
                   report, parsing, partition, rpc, library>>

\* selectModel(): getAvailableModels() returns the cached list when it is not
\* empty, and starts a discovery it waits for when it is
SelectModelAsked ==
    /\ \A k \in DOMAIN settings.inflight : ~settings.inflight[k].awaited
    /\ IF availableModels # <<>>
       THEN settings' = [settings EXCEPT
                           !.offered = {offer(settings.provider, settings.source,
                                              availableModels)}]
       ELSE /\ Len(settings.inflight) < MaxDiscoveries
            /\ settings' = [settings EXCEPT
                              !.inflight = Append(@, discovery(settings.provider, TRUE)),
                              !.offered = {}]
    /\ UNCHANGED <<engine, pc, lastExit, locals, mcpIO, cancelledBefore, gateway, resolving,
                   report, parsing, partition, rpc, library>>

ConfigNext ==
    \/ \E p \in Providers : UpdateConfiguration(p)
    \/ \E k \in 1..MaxDiscoveries :
          \E models \in ModelsOf("vscode.lm") \cup ModelsOf("ollama") :
             DiscoveryCompletes(k, models)
    \/ SelectModelAsked

ConfigSpec == ConfigInit /\ [][ConfigNext]_vars

(* ------------------------------------------------------ the prompt library *)
\* refresh() calls that may be in flight at once
MaxRefreshes == 2

\* the files the prompts folder can hold, in the order readdir lists them
FolderFiles == <<"a.prompt.md", "b.prompt.md", "notes.txt">>
PromptFileNames == {"a.prompt.md", "b.prompt.md"}

\* file.endsWith('.prompt.md')
isPromptFile(file) == file \in PromptFileNames

\* path.basename(fileName, '.prompt.md'): the name parsePrompt gives the prompt
promptName(file) ==
    CASE file = "a.prompt.md" -> "a"
      [] file = "b.prompt.md" -> "b"
      [] OTHER -> file

\* fs.readdir(this.promptsFolder)
readdir(folder) == SelectSeq(FolderFiles, LAMBDA f : f \in folder)

\* a loadPrompts() call waiting for fs.access
NewRefresh == [pc |-> "access", files |-> <<>>, k |-> 0]

\* the constructor has started its refresh; the folder exists
LibraryInit ==
    /\ EngineInit
    /\ workspaceFolders = <<>>
    /\ resolver = [uri |-> <<"report.txt">>, content |-> <<>>, type |-> "prompt",
                   item |-> [command |-> "", aiPrompt |-> <<>>, content |-> <<>>],
                   prompts |-> <<>>]
    /\ report = [summary |-> {}, documents |-> {}]
    /\ parsing = [file |-> <<>>, parsed |-> {}]
    /\ partition = [i |-> 0, batches |-> <<>>]
    /\ rpc = [request |-> {}, pc |-> "idle", outcome |-> {}]
    /\ settings = [provider |-> "vscode.lm", source |-> "vscode.lm", inflight |-> <<>>,
                   offered |-> {}]
    /\ \E folder \in SUBSET Range(FolderFiles) :
          library = [folder |-> folder, prompts |-> <<>>, refreshes |-> <<NewRefresh>>]

libraryFrame ==
    <<engine, pc, lastExit, locals, mcpIO, cancelledBefore, gateway, resolving, report,
      parsing, partition, rpc, settings>>

\* the batchAI.refreshPrompts command: refresh() up to the await of fs.access
Refresh ==
    /\ Len(library.refreshes) < MaxRefreshes
    /\ library' = [library EXCEPT !.refreshes = Append(@, NewRefresh)]
    /\ UNCHANGED libraryFrame

\* a prompt file is created or deleted, and the file watcher calls refresh()
PromptFileChanged(file) ==
    /\ file \in PromptFileNames
    /\ Len(library.refreshes) < MaxRefreshes
    /\ library' = [library EXCEPT
                     !.folder = IF file \in @ THEN @ \ {file} ELSE @ \cup {file},
                     !.refreshes = Append(@, NewRefresh)]
    /\ UNCHANGED libraryFrame

\* fs.access resolves: loadPrompts() waits for fs.readdir
AccessDone(k) ==
    /\ k \in DOMAIN library.refreshes
    /\ library.refreshes[k].pc = "access"
    /\ library' = [library EXCEPT !.refreshes[k].pc = "readdir"]
    /\ UNCHANGED libraryFrame

\* fs.readdir resolves: the prompt files are filtered, this.prompts is emptied
\* and the loop waits for the first file, or ends at once
ReaddirDone(k) ==
    /\ k \in DOMAIN library.refreshes
    /\ library.refreshes[k].pc = "readdir"
    /\ LET promptFiles == SelectSeq(readdir(library.folder), isPromptFile) IN
       library' = [library EXCEPT
                     !.prompts = <<>>,
                     !.refreshes = IF promptFiles = <<>> THEN without(@, k)
                                   ELSE [@ EXCEPT ![k] = [pc |-> "read", files |-> promptFiles,
                                                          k |-> 1]]]
    /\ UNCHANGED libraryFrame

\* fs.readFile settles: the prompt is parsed and pushed and the loop goes on,
\* or the catch empties this.prompts when the file is gone
ReadFileDone(k) ==
    /\ k \in DOMAIN library.refreshes
    /\ library.refreshes[k].pc = "read"
    /\ LET r == library.refreshes[k]
           file == r.files[r.k]
       IN IF file \notin library.folder
          THEN library' = [library EXCEPT !.prompts = <<>>, !.refreshes = without(@, k)]
          ELSE library' = [library EXCEPT
                             !.prompts = Append(@, promptName(file)),
                             !.refreshes = IF r.k = Len(r.files) THEN without(@, k)
                                           ELSE [@ EXCEPT ![k].k = r.k + 1]]
    /\ UNCHANGED libraryFrame

LibraryNext ==
    \/ Refresh
    \/ \E file \in PromptFileNames : PromptFileChanged(file)
    \/ \E k \in 1..MaxRefreshes : AccessDone(k)
    \/ \E k \in 1..MaxRefreshes : ReaddirDone(k)
    \/ \E k \in 1..MaxRefreshes : ReadFileDone(k)

LibrarySpec == LibraryInit /\ [][LibraryNext]_vars

(* ------------------------------------------------------------ fairness *)
\* every await of a run settles except the one on showResults, which waits
\* for the user to answer or dismiss the summary notification
FairSpec ==
    /\ Spec
    /\ WF_vars(\E c \in Callers, avail \in SUBSET Models, m \in Models \cup {Undefined} :
                  ModelSelected(c, avail, m))
    /\ WF_vars(\E c \in Callers : LoopHead(c))
    /\ WF_vars(\E c \in Callers, i \in 1..MaxTargets, err \in ItemErrors \cup {NoError} :
                  ReadDone(c, i, err))
    /\ WF_vars(\E c \in Callers, i \in 1..MaxTargets, ok \in BOOLEAN, tok \in TokenVals :
                  SendDone(c, i, ok, tok))
    /\ WF_vars(\E c \in Callers, i \in 1..MaxTargets : SaveDone(c, i, "written", i))
    /\ WF_vars(\E c \in Callers : Collect(c))
    /\ WF_vars(\E c \in Callers : DelayDone(c))

TypeOK ==
    /\ isProcessing \in BOOLEAN
    /\ \A c \in Callers : pc[c] \in Running \cup {"idle"}
    /\ lastExit \in Exits \cup {"none"}
    /\ \A c \in Callers : Len(results[c]) <= Len(uris[c])

(* ------------------------------------------------------------ properties *)
RunningCallers == {c \in Callers : pc[c] \in Running}
InLoop == {"loop", "await", "delay"}
Settled(c, i) == items[c][i].st \in SettledStates

\* C1: in every reachable state at most one caller holds a run (has claimed
\* the run-active flag and not yet released it), and the flag is set exactly
\* while some caller holds a run.
C1_AtMostOneRun ==
    /\ Cardinality(RunningCallers) <= 1
    /\ isProcessing <=> RunningCallers # {}

\* a call was rejected while another caller's run has items in flight
C1_Witness ==
    /\ lastExit = "ConcurrencyViolation"
    /\ \E c \in Callers : pc[c] = "await" /\ InFlight(c) # {}

\* C2: a process() call made while a run is active ends in ConcurrencyViolation
\* and changes nothing: the flag stays claimed, the cancellation handle, the
\* position and every local of the active run (items dispatched, results,
\* totals) are as before, so the active run continues as if the call had not
\* been made.
C2_RejectedCallChangesNothing ==
    [][(lastExit # "ConcurrencyViolation" /\ lastExit' = "ConcurrencyViolation")
         => /\ isProcessing /\ isProcessing'
            /\ cancellationToken # {} /\ cancellationToken' = cancellationToken
            /\ UNCHANGED <<pc, locals>>]_vars

\* a call was rejected while the active run had already collected a batch and
\* been asked to cancel
C2_Witness ==
    /\ lastExit = "ConcurrencyViolation"
    /\ isProcessing
    /\ isCancellationRequested
    /\ \E c \in Callers : pc[c] \in InLoop /\ results[c] # <<>>

\* C3: the step that ends a run (return or throw after the flag was claimed)
\* is the one step that releases the flag and the run's own cancellation
\* handle: after it the flag is false and the handle absent, and the flag is
\* never released by any other step.
C3_ReleasedExactlyOnce ==
    [][/\ \A c \in Callers :
             (pc[c] \in Running /\ pc'[c] = "idle")
                => /\ isProcessing /\ ~isProcessing'
                   /\ \E t \in cancellationToken : t.owner = c
                   /\ cancellationToken' = {}
       /\ (isProcessing /\ ~isProcessing')
             => \E c \in Callers : pc[c] \in Running /\ pc'[c] = "idle"
       /\ (cancellationToken # {} /\ cancellationToken' = {})
             => (isProcessing /\ ~isProcessing')]_vars

\* a run ended by a fatal error after its items were processed, flag released
C3_Witness ==
    /\ lastExit = "ShowResultsFailed"
    /\ ~isProcessing
    /\ cancellationToken = {}
    /\ RunningCallers = {}

\* C4: a run for which no model was resolved never dispatches an item, and it
\* ends from the model selection with NoModelSelected, the flag released.
C4_NoModelFailsFast ==
    /\ [](\A c \in Callers :
            /\ pc[c] \in (Running \ {"select"}) => selectedModel[c] # Undefined
            /\ selectedModel[c] = Undefined
                  => /\ dispatched[c] = 0
                     /\ \A i \in DOMAIN items[c] : items[c][i].st = "new")
    /\ [][\A c \in Callers :
            (pc[c] = "select" /\ pc'[c] = "idle")
               => /\ lastExit' = "NoModelSelected"
                  /\ dispatched[c] = 0
                  /\ ~isProcessing']_vars

\* a call failed for want of a model and the engine is free again
C4_Witness ==
    /\ lastExit = "NoModelSelected"
    /\ ~isProcessing
    /\ \A c \in Callers : pc[c] = "idle"

C6_ResultsInInputOrder ==
    \A c \in Callers :
        /\ \A i \in 1..Len(results[c]) :
              results[c][i] = ProcessingResult(uris[c][i], items[c][i])
        /\ \A r \in batchResult[c] :
              \A i \in 1..Len(r.results) : r.results[i].uri = uris[c][i]

\* a summary was built after a later item of a batch settled before an earlier one
C6_Witness ==
    \E c \in Callers :
        /\ pc[c] = "show"
        /\ Len(results[c]) >= 2
        /\ \E j, k \in 1..Len(settleOrder[c]) : j < k /\ settleOrder[c][j] > settleOrder[c][k]
        /\ \E i \in 1..Len(results[c]) : ~results[c][i].success

RECURSIVE SumOver(_, _)
SumOver(rs, S) ==
    IF S = {} THEN 0
    ELSE LET i == CHOOSE x \in S : TRUE
         IN  rs[i].tokens + SumOver(rs, S \ {i})

\* C8: in every summary totalProcessed is the number of results and the sum
\* of totalSuccessful and totalFailed, which count the successful and the
\* failed outcomes, and totalTokens is the sum of the token counts of the
\* outcomes that report one.
C8_SummaryTotals ==
    \A c \in Callers : \A r \in batchResult[c] :
        LET idx == 1..Len(r.results)
            succ == {i \in idx : r.results[i].success}
            fail == {i \in idx : ~r.results[i].success}
            withTokens == {i \in idx : r.results[i].tokens # NoTokens}
        IN  /\ r.results = results[c]
            /\ r.totalProcessed = Len(r.results)
            /\ r.totalProcessed = r.totalSuccessful + r.totalFailed
            /\ r.totalSuccessful = Cardinality(succ)
            /\ r.totalFailed = Cardinality(fail)
            /\ r.totalTokens = SumOver(r.results, withTokens)

\* a summary over a success with a token count, a success without and a failure
C8_Witness ==
    \E c \in Callers : \E r \in batchResult[c] :
        \E i, j, k \in 1..Len(r.results) :
            /\ r.results[i].success /\ r.results[i].tokens # NoTokens
            /\ r.results[j].success /\ r.results[j].tokens = NoTokens
            /\ ~r.results[k].success
            /\ r.totalTokens > 0

RECURSIVE Flatten(_)
Flatten(bs) == IF bs = <<>> THEN <<>> ELSE Head(bs) \o Flatten(Tail(bs))

\* C9: the batches of a run of n targets with batch size b are ceil(n / b)
\* consecutive pieces of the target list, in order; all but the last have b
\* targets and the last has n mod b (b when b divides n); no target, no batch.
C9_Partition ==
    \A c \in Callers :
        pc[c] \in (Running \ {"select"}) =>
            LET n == Len(uris[c])
                b == batchSize[c]
                bs == batches[c]
            IN  /\ Len(bs) * b >= n
                /\ (Len(bs) - 1) * b < n \/ Len(bs) = 0
                /\ n = 0 => bs = <<>>
                /\ Len(bs) = (n + b - 1) \div b
                /\ Flatten(bs) = uris[c]
                /\ \A k \in 1..Len(bs) :
                      /\ bs[k] = SubSeq(uris[c], (k - 1) * b + 1, Min(k * b, n))
                      /\ k < Len(bs) => Len(bs[k]) = b
                      /\ k = Len(bs) => Len(bs[k]) = (IF n % b = 0 THEN b ELSE n % b)

\* a run whose targets split into full batches and a smaller last one
C9_Witness ==
    \E c \in Callers :
        /\ pc[c] = "loop"
        /\ Len(batches[c]) >= 2
        /\ Len(batches[c][Len(batches[c])]) < batchSize[c]

\* 0-based number of the batch the target at position i belongs to
batchOf(c, i) == (i - 1) \div batchSize[c]

\* C10: at most batchSize items of a run are in flight, and while an item of
\* a batch is in flight no item of a later batch has been dispatched.
C10_BoundedSequentialBatches ==
    \A c \in Callers :
        /\ Cardinality(InFlight(c)) <= batchSize[c]
        /\ \A i \in InFlight(c) : \A j \in DOMAIN items[c] :
              items[c][j].st # "new" => batchOf(c, j) <= batchOf(c, i)
        /\ pc[c] # "await" => InFlight(c) = {}

\* a later batch in flight after a full earlier batch has settled
C10_Witness ==
    \E c \in Callers :
        /\ batchSize[c] >= 2
        /\ batchIndex[c] >= 1
        /\ InFlight(c) # {}
        /\ \A i \in 1..batchSize[c] : Settled(c, i)

\* number of batches of the run that have completed: the current one counts
\* once its pacing delay has been started
batchesCompleted(c) == batchIndex[c] + (IF pc[c] = "delay" THEN 1 ELSE 0)

\* C11: the pacing delay follows a completed batch exactly when batchSize > 1
\* and at least one more batch remains: with batchSize = 1 the run never
\* delays, with batchSize > 1 it has delayed once after every completed batch
\* but the last, so a run that ends uncancelled after k >= 1 batches has made
\* exactly k - 1 delays.
C11_PacingBetweenBatches ==
    \A c \in RunningCallers :
        LET k == Len(batches[c]) IN
        /\ pc[c] = "delay" => batchSize[c] > 1 /\ batchIndex[c] + 1 < k
        /\ batchSize[c] = 1 => delays[c] = 0
        /\ batchSize[c] > 1 /\ k >= 1 => delays[c] = Min(batchesCompleted(c), k - 1)
        /\ (pc[c] = "show" /\ batchSize[c] > 1 /\ k >= 1 /\ ~isCancellationRequested)
              => delays[c] = k - 1

\* an uncancelled run of two batches of size two presents its summary after
\* one pacing delay
C11_Witness ==
    \E c \in Callers :
        /\ pc[c] = "show"
        /\ ~isCancellationRequested
        /\ batchSize[c] = 2
        /\ Len(batches[c]) = 2
        /\ delays[c] = 1

\* the items of a run for which processItem has built its LLMRequest
Requested(c) == {i \in DOMAIN items[c] : items[c][i].model # Undefined}

\* C12: the model is resolved exactly once per run, before the first item is
\* dispatched, and every request of the run carries that selected model: no
\* item re-resolves it and it does not change during the run.
C12_ModelResolvedOnce ==
    \A c \in RunningCallers :
        /\ selectCalls[c] = 1
        /\ pc[c] = "select" => dispatched[c] = 0 /\ items[c] = <<>>
        /\ dispatched[c] > 0 => selectedModel[c] \in Models
        /\ \A i \in DOMAIN items[c] :
              /\ items[c][i].st \in {"send", "save", "ok"} => i \in Requested(c)
              /\ i \in Requested(c) => items[c][i].model = selectedModel[c]

\* requests of two batches of one run all carry the second model
C12_Witness ==
    \E c \in Callers :
        /\ selectedModel[c] = "m2"
        /\ batchIndex[c] >= 1
        /\ \E i, j \in Requested(c) : batchOf(c, i) < batchOf(c, j)

\* the items of a run whose backend call (sendRequest) failed
BackendFailed(c) == {i \in DOMAIN items[c] : items[c][i].rejection # NoRejection}

\* Math.ceil(n / b) for b >= 1
ceilDiv(n, b) == (n + b - 1) \div b

\* C13: a run over n targets with batch size b that is not cancelled and in
\* which exactly the backend calls of the items in F fail (nothing else
\* fails) dispatches ceil(n / b) batches and presents a summary of n outcomes
\* in input order with n - |F| successes and |F| failures, the failures at the
\* positions of F, each carrying the message of the error its backend call
\* raised, unchanged.
C13_BackendFailuresCounted ==
    \A c \in Callers :
        (/\ pc[c] = "show"
         /\ ~isCancellationRequested
         /\ \A i \in DOMAIN items[c] : items[c][i].error \notin ItemErrors)
        => LET n == Len(uris[c])
               b == batchSize[c]
               F == BackendFailed(c)
           IN  /\ Len(batches[c]) = ceilDiv(n, b)
               /\ batchIndex[c] = ceilDiv(n, b)
               /\ dispatched[c] = n
               /\ \A r \in batchResult[c] :
                     /\ Len(r.results) = n
                     /\ r.totalSuccessful = n - Cardinality(F)
                     /\ r.totalFailed = Cardinality(F)
                     /\ \A i \in 1..n :
                           /\ r.results[i].uri = uris[c][i]
                           /\ r.results[i].success <=> i \notin F
                           /\ i \in F => \A e \in items[c][i].rejection :
                                            r.results[i].error = e.message

\* three targets in batches of two, the backend call of the second one failed:
\* two batches, two successes, one failure
C13_Witness ==
    \E c \in Callers :
        /\ pc[c] = "show"
        /\ ~isCancellationRequested
        /\ Len(uris[c]) = 3 /\ batchSize[c] = 2
        /\ BackendFailed(c) = {2}
        /\ \A r \in batchResult[c] : r.totalSuccessful = 2 /\ r.totalFailed = 1

\* the items of a run whose result document could not be written
SaveFailed(c) == {i \in DOMAIN items[c] : items[c][i].save = "failed"}

\* C14: recording a result is best-effort. When saveResult fails, the step
\* leaves the item a success that carries the backend response's usage and no
\* error, changes no sibling item, no document and nothing of the run, and
\* process() goes on: the summary counts the item as successful.
C14_SaveFailureIsNotAFailure ==
    /\ [][\A c \in Callers : \A i \in DOMAIN items[c] :
            (i \in DOMAIN items'[c] /\ i \notin SaveFailed(c) /\ items'[c][i].save = "failed")
            => /\ items'[c][i] = [items[c][i] EXCEPT !.st = "ok", !.save = "failed"]
               /\ items'[c][i].error = NoError
               /\ \A j \in DOMAIN items[c] \ {i} : items'[c][j] = items[c][j]
               /\ UNCHANGED <<engine, pc, lastExit, docs, results, totalTokens>>]_vars
    /\ [](\A c \in Callers : \A r \in batchResult[c] : \A i \in SaveFailed(c) :
            /\ i <= Len(r.results)
            /\ r.results[i].success
            /\ r.results[i].error = NoError
            /\ r.totalSuccessful >= Cardinality(SaveFailed(c)))

\* a summary of a batch of two in which the document of the first item could
\* not be written and that of the second was
C14_Witness ==
    \E c \in Callers :
        /\ pc[c] = "show"
        /\ batchSize[c] = 2
        /\ Len(uris[c]) >= 2
        /\ items[c][1].save = "failed" /\ items[c][2].save = "written"
        /\ \A r \in batchResult[c] : r.totalSuccessful = 2 /\ r.totalFailed = 0
        /\ Cardinality(docs[c]) = 1

\* the items of a run that ended in success
Succeeded(c) == {i \in DOMAIN items[c] : items[c][i].st = "ok"}

\* C15: after a run with k successful outcomes whose writes all succeeded, k
\* distinct result documents exist for the run, one for each successful item,
\* and none for a failed item -- also when two targets of a batch share a
\* basename and are saved at the same timestamp.
C15_OneDocumentPerSuccess ==
    \A c \in Callers :
        (pc[c] = "show" /\ SaveFailed(c) = {})
        => /\ Cardinality(docs[c]) = Cardinality(Succeeded(c))
           /\ \A i \in Succeeded(c) : \E d \in docs[c] : d.content = uris[c][i]
           /\ \A i \in DOMAIN items[c] \ Succeeded(c) :
                 \A d \in docs[c] : d.content # uris[c][i]

\* a step of handleBatchProcessFiles: a request arrives while no process()
\* call of the handler is pending
HandlerStep == pc["mcp"] = "idle" /\ mcpIO' # mcpIO

\* the operation named by the arguments exists in the namespace of its kind
OperationExists(args) ==
    \/ args.type = "task" /\ args.item_name \in Tasks
    \/ args.type = "prompt" /\ args.item_name \in Prompts

\* C16: batch_process_files called (while no run is active) with kind 'task' or
\* 'prompt', the name of an operation of that kind and patterns matching at
\* least one file invokes process() on the resolved targets with the given
\* batch size, and answers with the summary process() returns.
C16_RunBatchInvokesEngine ==
    /\ [][HandlerStep /\ ~isProcessing
            => \A args \in mcpArgs' :
                  (OperationExists(args) /\ findAll(args.file_patterns) # <<>>)
                  => /\ pc'["mcp"] = "select"
                     /\ uris'["mcp"] = findAll(args.file_patterns)
                     /\ batchSize'["mcp"] = args.batch_size]_vars
    /\ [][(pc["mcp"] = "show" /\ pc'["mcp"] = "idle" /\ lastExit' = "returned")
            => mcpResponse' = {toolResult(r) : r \in batchResult["mcp"]}]_vars

ItemNotFound ==
    {errorResponse(InvalidParams, "Task not found"),
     errorResponse(InvalidParams, "Prompt not found")}
NoMatchingFiles ==
    {errorResponse(InvalidParams, "No files found matching the specified patterns")}

\* C17: batch_process_files answers ItemNotFound when the named operation does
\* not exist in the namespace of the given kind (task or prompt) and
\* NoMatchingFiles when the patterns match no file; in both cases process() is
\* not called and the engine state is unchanged.
C17_CallerInputErrors ==
    [][HandlerStep
         => \A args \in mcpArgs' :
               /\ (args.type \in {"task", "prompt"} /\ ~OperationExists(args))
                     => /\ mcpResponse' \subseteq ItemNotFound /\ mcpResponse' # {}
                        /\ UNCHANGED <<engine, pc, lastExit, locals>>
               /\ (OperationExists(args) /\ findAll(args.file_patterns) = <<>>)
                     => /\ mcpResponse' = NoMatchingFiles
                        /\ UNCHANGED <<engine, pc, lastExit, locals>>]_vars

\* C18: on every path that reaches process() the batchSize passed is an
\* integer between 1 and 50.
C18_BatchSizeWithinPolicy ==
    \A c \in RunningCallers : batchSize[c] \in 1..MaxPolicyBatch

\* C19: while the summary is being presented the run-active flag and the
\* cancellation handle have been released, so a new process() call is accepted.
C19_ReleasedBeforeSummary ==
    \A c \in Callers : pc[c] = "show" => ~isProcessing /\ cancellationToken = {}

\* C20: when every target read, backend call and result write (and every
\* other await of the run but the summary's) settles, a run that has claimed
\* the run-active flag eventually ends and releases it.
C20_RunEventuallyReleases == isProcessing ~> ~isProcessing

\* C21: cancel() affects only the run that is active when it is called. With
\* no run active there is no cancellation handle and cancel() changes nothing;
\* every run starts with a handle of its own on which no cancellation has
\* been requested, whatever was requested of earlier runs; and a run leaves
\* targets unprocessed only if cancellation was requested of that run itself.
C21_CancelAffectsActiveRunOnly ==
    /\ [](~isProcessing => cancellationToken = {} /\ cancelToken = cancellationToken)
    /\ [](\A t \in cancellationToken : pc[t.owner] \in Running)
    /\ [][\A c \in Callers :
            (pc[c] = "idle" /\ pc'[c] = "select")
            => cancellationToken' = {[owner |-> c, cancelled |-> FALSE]}]_vars
    /\ [](\A c \in Callers :
            (pc[c] = "show" /\ Len(results[c]) < Len(uris[c])) => isCancellationRequested)

\* after a run that had been asked to cancel has ended, a later run of two
\* batches presents the outcomes of all its targets
C21_Witness ==
    /\ cancelledBefore
    /\ pc["ui"] = "show"
    /\ ~isCancellationRequested
    /\ Len(batches["ui"]) = 2
    /\ Len(results["ui"]) = Len(uris["ui"])

\* C22: each dispatched item causes at most one backend call attempt: an item
\* has made one attempt once its request is built and never a second one,
\* also after the attempt failed; a failed attempt ends the item at once as a
\* failure whose error is the message of the error the gateway raised, and
\* that failure is the item's one outcome in the results.
C22_AtMostOneBackendCall ==
    \A c \in Callers : \A i \in DOMAIN items[c] :
        LET it == items[c][i] IN
        /\ it.attempts <= 1
        /\ it.attempts = 1 <=> i \in Requested(c)
        /\ i \in BackendFailed(c)
              => /\ it.st = "failed"
                 /\ \A e \in it.rejection : it.error = e.message
                 /\ i <= Len(results[c])
                       => /\ ~results[c][i].success
                          /\ \A e \in it.rejection : results[c][i].error = e.message

\* a summary with the failure of the one backend call of its first item next
\* to the success of its second item
C22_Witness ==
    \E c \in Callers :
        /\ pc[c] = "show"
        /\ Len(results[c]) >= 2
        /\ BackendFailed(c) = {1}
        /\ items[c][1].attempts = 1
        /\ results[c][2].success
\* C23: selectModel returns the only model without showing the quick pick,
\* shows the quick pick for several models and returns its answer, and returns
\* no model when none is available; a run whose selectModel returned no model
\* (none available, or the quick pick dismissed) ends with NoModelSelected
\* before any item is dispatched, and a run goes on only with the model
\* selectModel returned.
C23_SelectModel ==
    /\ [](gw.pc = "done" =>
            /\ Len(availableModels) = 0 => (~gw.asked /\ gw.ret = Undefined)
            /\ Len(availableModels) = 1 => (~gw.asked /\ gw.ret = availableModels[1])
            /\ Len(availableModels) > 1 =>
                  /\ gw.asked
                  /\ gw.ret = gw.answer
                  /\ gw.ret \in Range(availableModels) \cup {Undefined}
            /\ gw.ret = Undefined =>
                  /\ dispatched["ui"] = 0
                  /\ \A i \in DOMAIN items["ui"] : items["ui"][i].st = "new")
    /\ [](pc["ui"] \in (Running \ {"select"}) =>
            (gw.ret # Undefined /\ selectedModel["ui"] = gw.ret))
    /\ [][(pc["ui"] = "select" /\ pc'["ui"] = "idle")
             => (gw.ret = Undefined /\ lastExit' = "NoModelSelected")]_vars

\* the quick pick over two models was dismissed and the run ended without a model
C23_Witness ==
    /\ gw.pc = "done"
    /\ gw.asked
    /\ gw.answer = Undefined
    /\ Len(availableModels) = 2
    /\ lastExit = "NoModelSelected"
    /\ pc["ui"] = "idle"

\* C24: getAvailableModels never rejects: a failed discovery leaves the empty
\* list, which the call returns, and a call that finds the list empty starts a
\* discovery again.
C24_ListModelsNeverThrows ==
    /\ [](gw.pc # "threw")
    /\ [](gw.failed => (Len(availableModels) = 0 /\ gw.pc = "done" /\ gw.ret = Undefined))
    /\ [][(pc["ui"] = "idle" /\ pc'["ui"] = "select" /\ Len(availableModels) = 0)
             => (gw'.pc = "discover" /\ gw'.discovered)]_vars

\* after a call whose discovery failed, a later call discovered two models
C24_Witness ==
    /\ gw.failedBefore
    /\ gw.discovered
    /\ ~gw.failed
    /\ Len(availableModels) = 2
    /\ pc["ui"] = "await"

\* the template text of a resolution's operation, absent for a Task without one
templateOf(r) ==
    IF r.type = "prompt" THEN {r.item.content}
    ELSE IF r.item.aiPrompt # <<>> THEN {r.item.aiPrompt}
    ELSE {}

\* the substitution of the four placeholders in a template, each occurrence
\* replaced by its value as it is and every other token kept
RECURSIVE substituted(_, _, _, _)
substituted(template, uri, content, root) ==
    IF template = <<>> THEN <<>>
    ELSE LET t == Head(template)
         IN  (IF t = "{{FILE_CONTENT}}" THEN content
              ELSE IF t = "{{FILE_PATH}}" THEN uri
              ELSE IF t = "{{FILE_NAME}}" THEN pathBasename(uri)
              ELSE IF t = "{{WORKSPACE_PATH}}" THEN root
              ELSE <<t>>)
             \o substituted(Tail(template), uri, content, root)

\* C25: the prompt built from a template is the template with every
\* {{FILE_CONTENT}} replaced by the content, every {{FILE_PATH}} by the path,
\* every {{FILE_NAME}} by the last path segment and every {{WORKSPACE_PATH}} by
\* the first workspace folder (nothing if there is none), every other token,
\* {{FOO}} and {{file_name}} included, unchanged.
C25_PlaceholdersReplaced ==
    \A k \in DOMAIN resolver.prompts : \A template \in templateOf(resolver) :
        resolver.prompts[k].prompt =
            substituted(template, resolver.uri, resolver.content,
                        workspacePath(resolver.prompts[k].folders))

\* the tokens of a text that are placeholders buildPrompt knows
knownPlaceholders(text) ==
    {i \in DOMAIN text : text[i] \in {"{{FILE_CONTENT}}", "{{FILE_PATH}}", "{{FILE_NAME}}",
                                      "{{WORKSPACE_PATH}}"}}

\* C26: the content reaches the prompt as it was read: a Task without a
\* template yields the default text followed by the content, a Prompt whose
\* body has no placeholder yields the body, and a template that is only
\* {{FILE_CONTENT}} yields the content.
C26_ContentVerbatim ==
    \A k \in DOMAIN resolver.prompts :
        LET prompt == resolver.prompts[k].prompt
        IN  /\ templateOf(resolver) = {}
                 => prompt = <<"Execute task: ", resolver.item.command, "\n\nFile content:\n">>
                                 \o resolver.content
            /\ (resolver.type = "prompt" /\ knownPlaceholders(resolver.item.content) = {})
                 => prompt = resolver.item.content
            /\ templateOf(resolver) = {<<"{{FILE_CONTENT}}">>} => prompt = resolver.content

C28_ReportCoversEveryOutcome ==
    \A r \in report.summary : \A d \in report.documents :
        /\ Len(d.entries) = Len(r.results)
        /\ \A i \in DOMAIN d.entries :
              /\ d.entries[i].path = {r.results[i].uri}
              /\ d.entries[i].model # {}
              /\ d.entries[i].tokens # {}
              /\ ~r.results[i].success => d.entries[i].error = {r.results[i].error}

\* C29: the step that completes a batch while cancellation is requested leads
\* to the head of the loop, where the run leaves for the aggregation: it
\* starts no pacing delay.
C29_NoDelayAfterCancelledBatch ==
    [][\A c \in Callers :
          (pc[c] = "await" /\ pc'[c] # "await" /\ isCancellationRequested)
             => (pc'[c] = "loop" /\ delays'[c] = delays[c])]_vars

closingLine(lines) ==
    LET closers == {k \in 2..Len(lines) : lines[k] = <<"---">>}
    IN  IF lines # <<>> /\ lines[1] = <<"---">> /\ closers # {}
        THEN CHOOSE k \in closers : \A j \in closers : k <= j
        ELSE 0

\* C31: the prompt parsed from a file has a metadata block only when the
\* first line is exactly "---" and a later line is exactly "---"; then the
\* body is the text after that line and the metadata the key: value lines
\* between the two; otherwise the body is the whole file and there is no
\* metadata.
C31_MetadataBlockByLines ==
    \A p \in parsing.parsed :
        LET lines == parsing.file
            k == closingLine(lines)
        IN  IF k = 0
            THEN p.content = join(lines) /\ p.metadata = {}
            ELSE /\ p.content = join(SubSeq(lines, k + 1, Len(lines)))
                 /\ p.metadata = parseLines(SubSeq(lines, 2, k - 1), {})

\* C32: a run that has built its summary ends by returning it: the step that
\* ends a process() call waiting on showResults ends it with "returned".
C32_SummaryReturnedDespiteReportFailure ==
    [][\A c \in Callers :
          (pc[c] = "show" /\ pc'[c] = "idle") => lastExit' = "returned"]_vars

\* C33: createBatches finishes for every batch size: every push takes at
\* least one target that no earlier push took, so its loop pushes at most one
\* batch per target.
C33_PartitionFinishes ==
    \A c \in Callers :
        pc[c] = "partition" => Len(partition.batches) <= Len(uris[c])

\* C34: the results of a run are at every moment the outcomes of the first m
\* targets, in their order, where m is a multiple of the batch size or the
\* number of targets; so is the summary of a cancelled run.
C34_WholeBatchPrefix ==
    \A c \in Callers :
        pc[c] \in InLoop \cup {"show"} =>
            LET m == Len(results[c])
            IN  /\ m <= Len(uris[c])
                /\ m % batchSize[c] = 0 \/ m = Len(uris[c])
                /\ \A i \in 1..m : /\ results[c][i].uri = uris[c][i]
                                   /\ Settled(c, i)
                /\ \A r \in batchResult[c] : r.results = results[c]

\* a cancelled run of three targets in batches of two at its summary: the
\* first batch whole, nothing of the second
C34_Witness ==
    \E c \in Callers :
        /\ pc[c] = "show"
        /\ isCancellationRequested
        /\ batchSize[c] = 2
        /\ Len(uris[c]) = 3
        /\ \E r \in batchResult[c] : r.totalProcessed = 2
        /\ items[c][3].st = "new"

\* C35: a run whose cancellation is requested before it has dispatched a batch
\* leaves the loop without dispatching, reading or sending anything, builds
\* the summary of no results with all counts 0, and returns it: once a model
\* is selected, the run ends by returning, never by an error.
C35_CancelledBeforeFirstBatch ==
    /\ [](\A c \in Callers :
            (pc[c] \in {"loop", "show"} /\ dispatched[c] = 0 /\ isCancellationRequested)
               => /\ results[c] = <<>>
                  /\ \A i \in DOMAIN items[c] :
                        items[c][i].st = "new" /\ items[c][i].attempts = 0
                  /\ docs[c] = {}
                  /\ \A r \in batchResult[c] :
                        /\ r.results = <<>>
                        /\ r.totalProcessed = 0 /\ r.totalSuccessful = 0
                        /\ r.totalFailed = 0 /\ r.totalTokens = 0)
    /\ [][\A c \in Callers :
            /\ (pc[c] = "select" /\ isCancellationRequested /\ pc'[c] = "idle")
                  => lastExit' = "NoModelSelected"
            /\ (pc[c] = "loop" /\ dispatched[c] = 0 /\ isCancellationRequested /\ pc'[c] # "loop")
                  => (pc'[c] = "show" /\ dispatched'[c] = 0 /\ batchResult'[c] # {})
            /\ (pc[c] = "show" /\ dispatched[c] = 0 /\ uris[c] # <<>> /\ pc'[c] = "idle")
                  => lastExit' = "returned"]_vars

\* C38: handleRequest never rejects: every request that has been answered was
\* answered by a response that carries the request's id and holds either a
\* result or an error.
C38_HandleRequestNeverRejects ==
    \A request \in rpc.request : \A o \in rpc.outcome :
        /\ o.status = "fulfilled"
        /\ \A r \in o.response :
              /\ r.id = request.id
              /\ (r.result = {}) # (r.error = {})

\* C39: a file matched by more than one of the file patterns of a batch
\* invocation is in the target list once: the list the chat command builds from
\* its patterns has no file twice, and neither has the list of a run the MCP
\* batch tool started.
C39_MatchedFileOnce ==
    /\ \A ps \in PatternLists :
          \A i, j \in DOMAIN findFilesFromPatterns(ps) :
             findFilesFromPatterns(ps)[i] = findFilesFromPatterns(ps)[j] => i = j
    /\ \A i, j \in DOMAIN uris["mcp"] : uris["mcp"][i] = uris["mcp"][j] => i = j

\* C37: once the discoveries of all configuration changes have completed, the
\* cached model list was discovered from the configured backend; and a
\* non-empty list selectModel() goes on with was discovered from the backend
\* configured at that moment.
C37_ListOfConfiguredBackend ==
    /\ settings.inflight = <<>> => settings.source = settings.provider
    /\ \A o \in settings.offered : o.models # <<>> => o.source = o.provider

\* C36: once every refresh() has ended, getPrompts() holds exactly one entry
\* for each prompt file in the prompts folder: no name twice, no file missing,
\* no entry of a file that is gone.
C36_OneEntryPerPromptFile ==
    library.refreshes = <<>> =>
        /\ \A i, j \in DOMAIN library.prompts :
              library.prompts[i] = library.prompts[j] => i = j
        /\ Range(library.prompts) = {promptName(f) : f \in library.folder \cap PromptFileNames}

====
